---- MODULE Spec2Model ----
(***************************************************************************)
(* Me2You: audio byte stream -> frames -> message -> fan-out.              *)
(*                                                                         *)
(* The repository holds several variants of the same script.  Five of     *)
(* them are modelled, one of which runs in a behaviour (variable           *)
(* `program`):                                                             *)
(*   "allinone"  src/unnamed/part_002   startMicrophoneCapture,            *)
(*               handleNewMessage, SSE clients, TTS, webhook               *)
(*   "lpcm16"    src/Me2You.js:663-868  startRecording, logLine            *)
(*   "arecord"   src/Me2You.js:1-184    startMic, async data handler,      *)
(*               frequencyToMessage, restart on close                      *)
(*   "arecord_ui"  src/unnamed/part_001  the same startMic, with its own   *)
(*               sendMessageToAlexa                                        *)
(*   "arecord_cli" src/unnamed/part_000  startMic without UI, log, restart *)
(*                                                                         *)
(* Audio bytes are identified by their position in the stream (1, 2, ...), *)
(* so that dropping, duplicating or reordering a byte is observable.  The  *)
(* sample values, and hence the spectrum of a frame, are the environment's *)
(* input: the run plays one of a list of audio tracks (variable `audio`),  *)
(* which gives frame k its spectrum.                                       *)
(***************************************************************************)
EXTENDS Integers, Sequences, FiniteSets, TLC

\* ------------------------------------------------------------ bounds
\* Samples per frame.  The scripts set 2048 (FRAME_SIZE, FFT_SIZE); the
\* model runs the same code on a small frame.
FRAME_SIZE == 2
\* Frames' worth of bytes one capture source delivers at most.
MaxFrames == 2
\* /events requests opened at most.
MaxClients == 2
\* arecord restarts at most.
MaxRestarts == 1
\* Data handlers of startMic awaiting frequencyToMessage at the same time, at most.
MaxInflight == 2

\* Spectra the smoothing window holds at most.  The scripts set 5.
FFT_SMOOTHING == 3
\* Bits of a floating-point significand.  JavaScript numbers have 53; the
\* model rounds the same way (to nearest, ties to even) to fewer bits.
MantissaBits == 3

\* FRAME_SIZE * 2 bytes per frame (16-bit samples)
needed == FRAME_SIZE * 2
\* Bytes the sources deliver in total, and the largest chunk: a chunk can
\* carry two whole frames and a remainder.
MaxBytes == MaxFrames * needed + 1
\* Files that appear in recordings/ in a run.
MaxFiles == 2
\* Bins of the spectra mapFrequenciesToSymbols is applied to on its own.
SymbolBins == 6
MaxChunk == 2 * needed + 1
\* Bytes the arecord processes deliver in total: a frame, a frame that follows a
\* reset, and a byte left over.
MicMaxBytes == 2 * needed + 1

Programs == {"allinone", "lpcm16", "arecord"}
\* The scripts whose capture is startMic.
MicPrograms == {"arecord", "arecord_ui", "arecord_cli"}
NONE == "none"
ZERO == "zero"

\* ------------------------------------------------------------ pure helpers
RECURSIVE Flatten(_)
Flatten(ss) == IF ss = <<>> THEN <<>> ELSE Head(ss) \o Flatten(Tail(ss))

Range(s) == {s[i] : i \in 1..Len(s)}

Iota(a, n) == [i \in 1..n |-> a + i]

\* bufferToSamples: sample i is read from bytes 2i, 2i+1 (0-based), and there
\* are floor(length / 2) samples.
bufferToSamples(buffer) ==
    [i \in 1..(Len(buffer) \div 2) |-> <<buffer[2 * i - 1], buffer[2 * i]>>]

\* startMic's sample loop: for (i = 0; i < FFT_SIZE*2; i += 2) readInt16LE(i)
readSamples(buffer) ==
    [i \in 1..FRAME_SIZE |-> <<buffer[2 * i - 1], buffer[2 * i]>>]

\* A runFFTOnSamples that trims and does not pad.
padOrTrim_trimOnly(samples) ==
    IF Len(samples) > FRAME_SIZE THEN SubSeq(samples, 1, FRAME_SIZE) ELSE samples

\* runFFTOnSamples, up to the call of fft(): pad with zeros or trim to FRAME_SIZE
padOrTrim(samples) ==
    IF Len(samples) < FRAME_SIZE
    THEN samples \o [i \in 1..(FRAME_SIZE - Len(samples)) |-> ZERO]
    ELSE IF Len(samples) > FRAME_SIZE
    THEN SubSeq(samples, 1, FRAME_SIZE)
    ELSE samples

\* pending.slice(0, needed)
TakeFrame_short(p) == SubSeq(p, 1, needed - 1)
TakeFrame(p) == SubSeq(p, 1, needed)

\* pending.slice(needed)
DropFrame_dup(p) == SubSeq(p, needed, Len(p))
DropFrame(p) == SubSeq(p, needed + 1, Len(p))

MIN_GOOD_MAG == 1000

\* setTimeout(startMic, 1000)
RESTART_DELAY_MS == 1000

\* The sample rate, and the bins of the spectrum runFFTOnSamples returns (one
\* per sample of the frame).  The scripts sample at 16000 Hz and have 2048 bins
\* 7.8125 Hz wide, up to 8000 Hz at bin 1024; the model's classifier gets a
\* spectrum of 64 bins 100 Hz wide, up to 3200 Hz at bin 32, which has bins on
\* both sides of every threshold of interpretYesNo and mapColor.
SAMPLE_RATE == 6400
FFT_BINS == 64
\* -Infinity: below every magnitude (magnitudes are not negative)
NEG_INFINITY == -1

\* A scan in which a later bin of equal magnitude replaces the peak.
RECURSIVE peakScan_lastMax(_, _, _, _)
peakScan_lastMax(mags, i, half, acc) ==
    IF i >= half THEN acc
    ELSE peakScan_lastMax(mags, i + 1, half,
                  IF mags[i + 1] >= acc.max THEN [max |-> mags[i + 1], idx |-> i] ELSE acc)

\* for (let i = 1; i < half; i++) if (mags[i] > max) { max = mags[i]; idx = i; }
\* from turn i on; bin i is the sequence's element i + 1
RECURSIVE peakScan(_, _, _, _)
peakScan(mags, i, half, acc) ==
    IF i >= half THEN acc
    ELSE peakScan(mags, i + 1, half,
                  IF mags[i + 1] > acc.max THEN [max |-> mags[i + 1], idx |-> i] ELSE acc)

\* A search that starts at bin 0.
getDominantFrequency_dc(mags, sampleRate) ==
    LET r == peakScan(mags, 0, Len(mags) \div 2, [max |-> NEG_INFINITY, idx |-> 0])
    IN  [freq |-> r.idx * (sampleRate \div Len(mags)), mag |-> r.max]

\* getDominantFrequency(mags, sampleRate).  sampleRate / mags.length is exact
\* for the rates and lengths in use (16000 / 2048 in the scripts, 6400 / 64 here).
getDominantFrequency(mags, sampleRate) ==
    LET r == peakScan(mags, 1, Len(mags) \div 2, [max |-> NEG_INFINITY, idx |-> 0])
    IN  [freq |-> r.idx * (sampleRate \div Len(mags)), mag |-> r.max]

\* The values of a frequency that are not numbers: NaN and undefined, below
\* every frequency.  `!freq || isNaN(freq)` holds of them and of 0.
NaN == -2
UNDEFINED == -3

\* A test of `freq >= 1000` in place of `freq > 1000`.
interpretYesNo_inclusive(freq) ==
    IF freq \in {0, NaN, UNDEFINED} THEN "MAYBE"
    ELSE IF freq >= 1000 THEN "YES"
    ELSE IF freq < 200 THEN "NO"
    ELSE "MAYBE"

interpretYesNo(freq) ==
    IF freq \in {0, NaN, UNDEFINED} THEN "MAYBE"
    ELSE IF freq > 1000 THEN "YES"
    ELSE IF freq < 200 THEN "NO"
    ELSE "MAYBE"

\* A mapColor without its first test: 0 goes to the lowest range, and every
\* comparison with NaN or undefined is false.
mapColor_noGray(freq) ==
    IF freq \in {NaN, UNDEFINED} THEN "Violet"
    ELSE IF freq < 300 THEN "Red"
    ELSE IF freq < 700 THEN "Green"
    ELSE IF freq < 1500 THEN "Blue"
    ELSE "Violet"

\* A Blue bucket that takes 1500 Hz in.
mapColor_blueTo1500(freq) ==
    IF freq \in {0, NaN, UNDEFINED} THEN "Gray"
    ELSE IF freq < 300 THEN "Red"
    ELSE IF freq < 700 THEN "Green"
    ELSE IF freq <= 1500 THEN "Blue"
    ELSE "Violet"

mapColor(freq) ==
    IF freq \in {0, NaN, UNDEFINED} THEN "Gray"
    ELSE IF freq < 300 THEN "Red"
    ELSE IF freq < 700 THEN "Green"
    ELSE IF freq < 1500 THEN "Blue"
    ELSE "Violet"

\* The message text, as the pieces the template concatenates.
generateMessage(freq, yesNo, color, mag) ==
    << IF yesNo = "YES" THEN "Affirmative signal present. "
       ELSE IF yesNo = "NO" THEN "No clear signal. "
       ELSE "Unclear response. ",
       "Color: ", color, ". Peak: ", freq, " Hz (mag ", mag, ")." >>

\* ------------------------------------------------------------ audio tracks
\* A spectrum of FFT_BINS bins, by its description: magnitude `mag` at bin
\* `bin`, `mag2` at `bin2`, 0 elsewhere.
SpectrumOf(d) ==
    [i \in 1..FFT_BINS |-> IF i - 1 = d.bin THEN d.mag
                            ELSE IF i - 1 = d.bin2 THEN d.mag2 ELSE 0]

Silence == [bin |-> 0, mag |-> 0, bin2 |-> 0, mag2 |-> 0]
Loud1500 == [bin |-> 15, mag |-> 2000, bin2 |-> 0, mag2 |-> 0]

\* The bins and magnitudes of the test tones: DC, the bins at the thresholds of
\* interpretYesNo and mapColor and next to them, the last bin below Nyquist,
\* the Nyquist bin and one above it; magnitudes at the floor and around it.
TestBins == << 0, 1, 2, 3, 7, 10, 11, 15, 25, 31, 32, 40 >>
TestMags == << 1000, 1001, 2000 >>
\* What accompanies the tone: nothing, a weaker tone at 500 Hz, or a tone of
\* the same magnitude at 2000 Hz.
Second(k, mag) ==
    IF k = 0 THEN [bin2 |-> 0, mag2 |-> 0]
    ELSE IF k = 1 THEN [bin2 |-> 5, mag2 |-> 500]
    ELSE [bin2 |-> 20, mag2 |-> mag]

\* Tracks 0 and 1 alternate between silence and a loud 1500 Hz tone, track 0
\* beginning with the tone; each later track holds one test tone in every frame.
BaseTracks == 2
NTracks == BaseTracks + Len(TestBins) * Len(TestMags) * 3

\* The description of the spectrum of the frames of parity p of track a.
Descr(a, p) ==
    IF a < BaseTracks THEN << Silence, Loud1500 >>[((p + a) % 2) + 1]
    ELSE LET k == a - BaseTracks
             mag == TestMags[((k \div Len(TestBins)) % Len(TestMags)) + 1]
             snd == Second(k \div (Len(TestBins) * Len(TestMags)), mag)
         IN  [bin |-> TestBins[(k % Len(TestBins)) + 1], mag |-> mag,
              bin2 |-> snd.bin2, mag2 |-> snd.mag2]

\* getDominantFrequency(runFFTOnSamples(samples), SAMPLE_RATE) for the frames of
\* each track and parity
PeakTable ==
    [a \in 0..(NTracks - 1) |->
        [p \in 0..1 |-> getDominantFrequency(SpectrumOf(Descr(a, p)), SAMPLE_RATE)]]

\* ------------------------------------------------------------ numbers
\* Magnitudes are floating-point numbers.  The model writes a number as an
\* integer count of units of 1/Unit, fine enough that every number it meets has
\* its significand's last bit at or above the unit.
RECURSIVE Pow2(_)
Pow2(n) == IF n = 0 THEN 1 ELSE 2 * Pow2(n - 1)
Unit == Pow2(MantissaBits + 2)

\* The power of two, times n, that leaves x / n a significand of MantissaBits bits.
RECURSIVE Scale(_, _)
Scale(x, d) == IF x \div d < Pow2(MantissaBits) THEN d ELSE Scale(x, 2 * d)

\* x / n rounded to the nearest number of MantissaBits bits, ties to even
RoundDiv(x, n) ==
    LET d == Scale(x, n)
        m == x \div d
        r == x % d
        up == 2 * r > d \/ (2 * r = d /\ m % 2 = 1)
    IN  (IF up THEN m + 1 ELSE m) * (d \div n)

\* a + b and a / n of JavaScript numbers
fadd(a, b) == RoundDiv(a + b, 1)
fdiv(a, n) == RoundDiv(a, n)

\* ------------------------------------------------------------ smoothing (Me2You.js:41-46)
\* Spectra the model pushes, FRAME_SIZE bins each: two of one magnitude in every
\* bin, and two with a single tone.
Flat(c) == [i \in 1..FRAME_SIZE |-> c]
Tone(b, c) == [i \in 1..FRAME_SIZE |-> IF i = b THEN c ELSE 0]
Spectra == {Flat(4 * Unit), Flat(6 * Unit), Tone(1, 7 * Unit), Tone(FRAME_SIZE, 5 * Unit)}

\* Calls of smoothFrequencies the smoother's own runs make at most: the window
\* fills, and two more.
MaxPushes == FFT_SMOOTHING + 2

\* A window that is never taken to be full.
windowFull_never(sd) == FALSE
\* smoothedData.length > FFT_SMOOTHING
windowFull(sd) == Len(sd) > FFT_SMOOTHING

\* smoothedData.pop() in its place: drops the newest spectrum
shift_pop(sd) == SubSeq(sd, 1, Len(sd) - 1)
\* smoothedData.shift(): drops the oldest spectrum
shift(sd) == Tail(sd)

\* smoothedData.reduce((sum, buf) => sum + buf[i], 0) over the first k spectra
RECURSIVE reduceBin(_, _, _)
reduceBin(sd, i, k) == IF k = 0 THEN 0 ELSE fadd(reduceBin(sd, i, k - 1), sd[k][i])

\* A mean that always divides by FFT_SMOOTHING.
smoothFrequencies_byK(sd, mags) ==
    LET pushed1 == Append(sd, mags)
        win == IF windowFull(pushed1) THEN shift(pushed1) ELSE pushed1
    IN  [smoothedData |-> win,
         out |-> [i \in 1..Len(mags) |-> fdiv(reduceBin(win, i, Len(win)), FFT_SMOOTHING)]]

\* smoothFrequencies(mags) on the window sd: the window after the call, and the
\* spectrum returned
smoothFrequencies(sd, mags) ==
    LET pushed1 == Append(sd, mags)
        win == IF windowFull(pushed1) THEN shift(pushed1) ELSE pushed1
    IN  [smoothedData |-> win,
         out |-> [i \in 1..Len(mags) |-> fdiv(reduceBin(win, i, Len(win)), Len(win))]]

\* ------------------------------------------------------------ band symbols (Me2You.js:88-103)
\* The bands, each with the name the model gives its symbol.
bands == << [min |-> 20, max |-> 200, symbol |-> "low"],
            [min |-> 201, max |-> 600, symbol |-> "mid"],
            [min |-> 601, max |-> 2000, symbol |-> "high"] >>

\* `(idx/FFT_SIZE)*SAMPLE_RATE` of bin idx (from 0) of a spectrum of the capture
\* handlers, whose bins the model spaces 150 Hz apart.
BAND_BIN_HZ == 150
bandFreq(idx) == idx * BAND_BIN_HZ

\* MIN_CONFIDENCE, in hundredths
MIN_CONFIDENCE == 5

\* Math.max(...freqData)
RECURSIVE arrMax(_, _)
arrMax(a, k) == IF k = 0 THEN NEG_INFINITY
                ELSE LET m == arrMax(a, k - 1) IN IF a[k] > m THEN a[k] ELSE m

\* `mag/Math.max(...freqData) < MIN_CONFIDENCE`; 0/0 is NaN, which is below nothing
belowConfidence(mag, max) == max # 0 /\ 100 * mag < MIN_CONFIDENCE * max

\* The symbols added while the bins up to k are visited, in insertion order.
RECURSIVE symbolsUpTo(_, _)
symbolsUpTo(freqData, k) ==
    IF k = 0 THEN <<>>
    ELSE LET before == symbolsUpTo(freqData, k - 1)
             freq == bandFreq(k - 1)
             hit == IF belowConfidence(freqData[k], arrMax(freqData, Len(freqData)))
                    THEN <<>>
                    ELSE SelectSeq([b \in 1..Len(bands) |-> bands[b]],
                                   LAMBDA b : freq >= b.min /\ freq <= b.max
                                              /\ \A j \in 1..Len(before) : before[j] # b.symbol)
         IN  before \o [j \in 1..Len(hit) |-> hit[j].symbol]

\* mapFrequenciesToSymbols(freqData): Array.from of the set of symbols
mapFrequenciesToSymbols(freqData) == symbolsUpTo(freqData, Len(freqData))

\* symbols.join(' | ')
RECURSIVE join(_)
join(symbols) ==
    IF symbols = <<>> THEN ""
    ELSE IF Len(symbols) = 1 THEN symbols[1]
    ELSE symbols[1] \o " | " \o join(Tail(symbols))

\* ------------------------------------------------------------ state
VARIABLES
    program,        \* which script runs
    audio,          \* which track the run plays
    ENABLE_TTS,     \* process.env.ME2YOU_TTS === "1"
    WEBHOOK_ON_MESSAGE, \* a webhook URL is configured
    ENABLE_FILE_FALLBACK, \* process.env.ME2YOU_FILEMODE === "1"
    env,            \* the credentials process.env defines
    exited,         \* the code process.exit was called with, -1 while the process runs
    listening,      \* the app.listen callback has run
    recording,      \* part_002 `recording` is set / Me2You.js `running`
    source,         \* the capture source: "none", "open", "errored" (error event
                    \* delivered), "closed" (closed cleanly), "failed" (closed after an error)
    streamPos,      \* bytes the sources have delivered so far (byte ids 1..streamPos)
    pending,        \* `pending`: bytes received and not yet framed
    emitted,        \* history: the byte slices taken as frames, in order
    analysed,       \* history: the sample arrays handed to the FFT, in order
    lastChunk,      \* history: buffer length after the last concat, frames it gave
    classified,     \* history: the last classification: the frame, the spectral
                    \* data it was computed from, and the labels it gave
    lastMessage, lastFreq, lastMag,
    logFile,        \* content of the log file, as the pieces appended
    console,        \* what console.error recorded
    dispatched,     \* history: frame numbers in the order their message was dispatched
    clients,        \* `clients`: the SSE responses, in push order
    conn,           \* each response's connection: "new", "open", "broken", "closed"
    written,        \* per response: the retry directives written to it, the kind of
                    \* the first event written to it, the ts of the last message written
    lastBroadcast,  \* history: the last broadcast's ts and message text, `clients` when
                    \* it began, the responses
                    \* it wrote to, and those whose write threw
    ttsCalls,       \* exec() calls of the TTS sink
    webhookCalls,   \* exec() calls of the webhook sink, in order
    issued,         \* history: the calls of appendLog, broadcastToSSE and notifyWebhook
                    \* in order, each with the ts and message it was given and
                    \* what lastMessage held when it was made
    crashed,        \* an exception left an event handler uncaught
    \* startMic (Me2You.js:150-184)
    gen,            \* startMic invocations so far
    buffer,         \* `buffer` of the running invocation's closure; the buffer of an
                    \* earlier invocation is reachable from its own handlers only
    handlers,       \* data handlers awaiting frequencyToMessage, each with the
                    \* invocation whose closure it runs in
    timer,          \* the pending setTimeout callbacks: for startMic the delay, for a
                    \* watch event the delay and the file
    exitCode,       \* history: the code of the last close event, -1 before any
    ioEvents,       \* io.emit('frequency', ...) calls, in order
    smoothedData,   \* `smoothedData`: the smoothing window
    pushed,         \* history: every spectrum passed to smoothFrequencies, in order
    smoothed,       \* history: what the last smoothFrequencies call returned
    alexaSends,     \* sendMessageToAlexa calls, in order
    alexaTrace,     \* history: what each sendMessageToAlexa call has done so far,
                    \* as [id, ev] with id the call's place in alexaSends
    unhandled       \* a promise of an async function was rejected and nothing caught it

dispatchVars == << lastMessage, lastFreq, lastMag, logFile, console, dispatched,
                   written, lastBroadcast, ttsCalls, webhookCalls, issued >>
frameVars == << streamPos, pending, emitted, analysed, lastChunk, classified >>
\* The configuration and the exit code: no handler assigns them, the startup
\* check and the SIGINT handler end the process.
configVars == << program, audio, ENABLE_TTS, WEBHOOK_ON_MESSAGE, ENABLE_FILE_FALLBACK,
                env, exited >>

\* The variables the startup check destructures from process.env and requires.
Credentials == {"ALEXA_SKILL_ID", "ALEXA_CLIENT_ID", "ALEXA_CLIENT_SECRET",
                "ALEXA_REFRESH_TOKEN", "OPENAI_API_KEY"}

\* The process has neither died of an uncaught exception nor exited.
Running == ~crashed /\ exited = -1

\* A peak carried over from the frame before: none for the first frame.
PeakOf_previous(k) ==
    IF k = 1 THEN [freq |-> 0, mag |-> 0] ELSE PeakTable[audio][(k - 1) % 2]
\* The dominant peak of the k-th frame analysed.
PeakOf(k) == PeakTable[audio][k % 2]
smoothVars == << smoothedData, pushed, smoothed >>
micVars == << gen, buffer, handlers, timer, exitCode, ioEvents, smoothVars,
             alexaSends, alexaTrace, unhandled >>

\* fft.util.fftMag(fft.fft(samples)) of the k-th frame startMic analyses: on
\* tracks 0 and 1 the audio alternates between an even spectrum and a single
\* tone at DC, on the later tracks it holds one of the two in every frame.
MicSpectrum(k) ==
    IF audio < BaseTracks
    THEN << Flat(4 * Unit), Tone(1, 7 * Unit) >>[((k + audio) % 2) + 1]
    ELSE << Flat(4 * Unit), Tone(1, 7 * Unit) >>[(audio % 2) + 1]

vars == << configVars, listening, recording, source, frameVars, dispatchVars,
           clients, conn, crashed, micVars >>

ClientIds == 1..MaxClients

\* The part of the state a data handler works on, as one record; `exc` is the
\* exception in flight, if any.
St == [ pending |-> pending, emitted |-> emitted, analysed |-> analysed,
        classified |-> classified,
        lastMessage |-> lastMessage, lastFreq |-> lastFreq, lastMag |-> lastMag,
        logFile |-> logFile, console |-> console, dispatched |-> dispatched,
        written |-> written, lastBroadcast |-> lastBroadcast,
        ttsCalls |-> ttsCalls,
        webhookCalls |-> webhookCalls, issued |-> issued, exc |-> NONE ]

Install(s) ==
    /\ pending' = s.pending
    /\ emitted' = s.emitted
    /\ analysed' = s.analysed
    /\ classified' = s.classified
    /\ lastMessage' = s.lastMessage
    /\ lastFreq' = s.lastFreq
    /\ lastMag' = s.lastMag
    /\ logFile' = s.logFile
    /\ console' = s.console
    /\ dispatched' = s.dispatched
    /\ written' = s.written
    /\ lastBroadcast' = s.lastBroadcast
    /\ ttsCalls' = s.ttsCalls
    /\ webhookCalls' = s.webhookCalls
    /\ issued' = s.issued
    /\ crashed' = (s.exc # NONE)

\* ------------------------------------------------------------ sinks (part_002)
\* fs.writeFileSync in its place: replaces the content
appendFileSync_overwrite(st, data, ok) ==
    IF ok THEN [st EXCEPT !.logFile = data]
    ELSE [st EXCEPT !.exc = "appendFileSync"]

\* fs.appendFileSync(file, data): appends data whole, or throws
appendFileSync(st, data, ok) ==
    IF ok THEN [st EXCEPT !.logFile = @ \o data]
    ELSE [st EXCEPT !.exc = "appendFileSync"]

\* appendLog: try { appendFileSync(LOG_FILE, line + "\n") } catch { console.error }
appendLog_nocatch(st, line, ok) == appendFileSync(st, <<line, "\n">>, ok)
appendLog(st, line, ok) ==
    LET r == appendFileSync([st EXCEPT !.issued =
                                Append(@, [sink |-> "log", ts |-> line.ts,
                                           message |-> line.message,
                                           lastMessage |-> st.lastMessage])],
                            <<line, "\n">>, ok)
    IN  IF r.exc # NONE
        THEN [r EXCEPT !.exc = NONE,
                       !.console = Append(@, [what |-> "Log write failed", ts |-> line.ts])]
        ELSE r

\* res.write(data) on response c: delivered when the connection is open, throws
\* when the peer is gone
resWrite(st, c, data) ==
    LET a == [st EXCEPT !.lastBroadcast.tried = Append(@, c)]
    IN  IF conn[c] = "open"
        THEN [a EXCEPT !.written[c].first = IF @ = NONE THEN data.kind ELSE @,
                       !.written[c].last = data.ts]
        ELSE [a EXCEPT !.exc = "write", !.lastBroadcast.threw = @ \cup {c}]

\* try { res.write(data); } catch (e) { /* ignore */ }
tryWrite_nocatch(st, c, data) == resWrite(st, c, data)
tryWrite(st, c, data) ==
    LET r == resWrite(st, c, data)
    IN  IF r.exc # NONE THEN [r EXCEPT !.exc = NONE] ELSE r

\* clients.forEach(...)
RECURSIVE forEachClient(_, _, _)
forEachClient(st, cs, data) ==
    IF cs = <<>> \/ st.exc # NONE THEN st
    ELSE forEachClient(tryWrite(st, Head(cs), data), Tail(cs), data)

broadcastToSSE(st, msgObj) ==
    forEachClient([st EXCEPT !.lastBroadcast = [ts |-> msgObj.ts, message |-> msgObj.message,
                                                subs |-> clients,
                                                tried |-> <<>>, threw |-> {}],
                             !.issued = Append(@, [sink |-> "sse", ts |-> msgObj.ts,
                                                   message |-> msgObj.message,
                                                   lastMessage |-> st.lastMessage])],
                  clients, [msgObj EXCEPT !.kind = "data"])

\* speakTermuxTTS: nothing unless enabled; exec() returns at once and reports
\* failure to its callback
speakTermuxTTS(st, text, ts) ==
    IF ~ENABLE_TTS THEN st
    ELSE [st EXCEPT !.ttsCalls = @ \cup {[cmd |-> "termux-tts-speak", text |-> text, ts |-> ts]}]

\* A command line that carries the first clause of the message only.
execCurl_partial(payload, state) ==
    [payload EXCEPT !.message = SubSeq(@, 1, 1)] @@ [exec |-> state]
\* The exec() call of a payload: the payload, and the state of the child process.
execCurl(payload, state) == payload @@ [exec |-> state]

\* A sink that runs curl again when the first run is refused.
notifyWebhook_retry(st, payload) ==
    IF ~WEBHOOK_ON_MESSAGE THEN st
    ELSE [st EXCEPT !.webhookCalls = @ \o << execCurl(payload, "failed"),
                                             execCurl(payload, "running") >>]
\* A sink that returns once curl has exited.
notifyWebhook_awaited(st, payload) ==
    IF ~WEBHOOK_ON_MESSAGE THEN st
    ELSE [st EXCEPT !.webhookCalls = Append(@, execCurl(payload, "exited"))]
\* notifyWebhook: nothing unless configured; one exec() of curl, which returns
\* at once, callback empty
notifyWebhook(st, payload) ==
    IF ~WEBHOOK_ON_MESSAGE THEN st
    ELSE [st EXCEPT !.webhookCalls = Append(@, execCurl(payload, "running")),
                    !.issued = Append(@, [sink |-> "webhook", ts |-> payload.ts,
                                          message |-> payload.message,
                                          lastMessage |-> st.lastMessage])]

\* A statement after one that threw does not run.
Then(st, next) == IF st.exc # NONE THEN st ELSE next

\* A handleNewMessage that leaves lastFreq as it was.
handleNewMessage_staleFreq(st, freq, mag, logOk) ==
    LET yesNo == IF mag # 0 /\ mag > MIN_GOOD_MAG THEN interpretYesNo(freq) ELSE "MAYBE"
        color == mapColor(freq)
        message == generateMessage(freq, yesNo, color, mag)
        ts == Len(st.dispatched) + 1
        s1 == [st EXCEPT !.lastMessage = message, !.lastMag = mag,
                         !.dispatched = Append(@, ts),
                         !.classified = [@ EXCEPT !.freq = freq, !.mag = mag,
                                                  !.yesNo = yesNo, !.color = color]]
        logLine == [ts |-> ts, freq |-> freq, yesNo |-> yesNo, color |-> color,
                    message |-> message]
        s2 == appendLog(s1, logLine, logOk)
        obj == [kind |-> "obj", ts |-> ts, message |-> message, freq |-> freq, mag |-> mag]
        s3 == Then(s2, broadcastToSSE(s2, obj))
        s4 == Then(s3, speakTermuxTTS(s3, message, ts))
    IN  Then(s4, notifyWebhook(s4, obj))

\* A handleNewMessage that assigns lastMessage after the fan-out.
handleNewMessage_snapshotLast(st, freq, mag, logOk) ==
    LET yesNo == IF mag # 0 /\ mag > MIN_GOOD_MAG THEN interpretYesNo(freq) ELSE "MAYBE"
        color == mapColor(freq)
        message == generateMessage(freq, yesNo, color, mag)
        ts == Len(st.dispatched) + 1
        s1 == [st EXCEPT !.lastFreq = freq, !.lastMag = mag,
                         !.dispatched = Append(@, ts),
                         !.classified = [@ EXCEPT !.freq = freq, !.mag = mag,
                                                  !.yesNo = yesNo, !.color = color]]
        logLine == [ts |-> ts, freq |-> freq, yesNo |-> yesNo, color |-> color,
                    message |-> message]
        s2 == appendLog(s1, logLine, logOk)
        obj == [kind |-> "obj", ts |-> ts, message |-> message, freq |-> freq, mag |-> mag]
        s3 == Then(s2, broadcastToSSE(s2, obj))
        s4 == Then(s3, speakTermuxTTS(s3, message, ts))
        s5 == Then(s4, notifyWebhook(s4, obj))
    IN  [s5 EXCEPT !.lastMessage = message]

\* handleNewMessage(freq, mag); ts stands for nowISO(), the number of the
\* dispatch; logOk is whether the file system accepts the append
handleNewMessage(st, freq, mag, logOk) ==
    LET yesNo == IF mag # 0 /\ mag > MIN_GOOD_MAG THEN interpretYesNo(freq) ELSE "MAYBE"
        color == mapColor(freq)
        message == generateMessage(freq, yesNo, color, mag)
        ts == Len(st.dispatched) + 1
        s1 == [st EXCEPT !.lastMessage = message, !.lastFreq = freq, !.lastMag = mag,
                         !.dispatched = Append(@, ts),
                         !.classified = [@ EXCEPT !.freq = freq, !.mag = mag,
                                                  !.yesNo = yesNo, !.color = color]]
        logLine == [ts |-> ts, freq |-> freq, yesNo |-> yesNo, color |-> color,
                    message |-> message]
        s2 == appendLog(s1, logLine, logOk)
        obj == [kind |-> "obj", ts |-> ts, message |-> message, freq |-> freq, mag |-> mag]
        s3 == Then(s2, broadcastToSSE(s2, obj))
        s4 == Then(s3, speakTermuxTTS(s3, message, ts))
    IN  Then(s4, notifyWebhook(s4, obj))

\* ------------------------------------------------------------ Me2You.js:796-823
\* try { logLine(freq, yesNo, color, message); } catch (e) { /* ignore */ }
tryLogLine(st, line, ok) ==
    LET r == appendFileSync(st, <<line, "\n">>, ok)
    IN  IF r.exc # NONE THEN [r EXCEPT !.exc = NONE] ELSE r

\* the body of startRecording's loop after the FFT
recordingBody(st, freq, mag, logOk) ==
    LET yesNo == IF mag # 0 /\ mag > MIN_GOOD_MAG THEN interpretYesNo(freq) ELSE "MAYBE"
        color == mapColor(freq)
        message == generateMessage(freq, yesNo, color, mag)
        ts == Len(st.dispatched) + 1
        s1 == [st EXCEPT !.lastMessage = message, !.lastFreq = freq,
                         !.dispatched = Append(@, ts),
                         !.classified = [@ EXCEPT !.freq = freq, !.mag = mag,
                                                  !.yesNo = yesNo, !.color = color]]
    IN  tryLogLine(s1, [ts |-> ts, freq |-> freq, yesNo |-> yesNo, color |-> color,
                        message |-> message], logOk)

\* ------------------------------------------------------------ the frame loop
\* One turn of `while (pending.length >= needed)`: slice the frame off, convert
\* it, hand it to the FFT.
takeFrame(st) ==
    LET frame == TakeFrame(st.pending)
        samples == bufferToSamples(frame)
    IN  [st EXCEPT !.pending = DropFrame(st.pending),
                   !.emitted = Append(@, frame),
                   !.analysed = Append(@, samples)]

\* runFFTOnSamples(samples) of the k-th frame: the spectrum the track gives it,
\* named by track and frame
runFFTOnSamples(k) == [track |-> audio, frame |-> k]

\* No classification yet.
Unclassified == [frame |-> 0, spectrum |-> NONE, freq |-> 0, mag |-> 0,
                 yesNo |-> NONE, color |-> NONE]

\* The states one turn can end in: the file system accepts the append or not.
loopTurn(st) ==
    LET s1 == takeFrame(st)
        k == Len(s1.analysed)
        mags == runFFTOnSamples(k)
        pk == PeakOf(mags.frame)
        s2 == [s1 EXCEPT !.classified = [Unclassified EXCEPT !.frame = k, !.spectrum = mags]]
    IN  { IF program = "allinone"
          THEN handleNewMessage(s2, pk.freq, pk.mag, ok)
          ELSE recordingBody(s2, pk.freq, pk.mag, ok)
          : ok \in BOOLEAN }

RECURSIVE frameLoop(_)
frameLoop(st) ==
    IF st.exc # NONE THEN {st}
    ELSE IF Len(st.pending) >= needed
    THEN UNION { frameLoop(s) : s \in loopTurn(st) }
    ELSE {st}

\* ------------------------------------------------------------ initial states
InitCommon ==
    /\ listening = FALSE
    /\ recording = FALSE
    /\ source = "none"
    /\ streamPos = 0
    /\ pending = <<>>
    /\ emitted = <<>>
    /\ analysed = <<>>
    /\ lastChunk = [total |-> 0, frames |-> 0]
    /\ classified = Unclassified
    /\ lastMessage = <<"No signal detected yet.">>
    /\ lastFreq = 0
    /\ lastMag = 0
    /\ logFile = <<>>
    /\ console = <<>>
    /\ dispatched = <<>>
    /\ clients = <<>>
    /\ conn = [c \in ClientIds |-> "new"]
    /\ written = [c \in ClientIds |-> [retry |-> 0, first |-> NONE, last |-> 0]]
    /\ lastBroadcast = [ts |-> 0, message |-> <<>>, subs |-> <<>>, tried |-> <<>>,
                        threw |-> {}]
    /\ ttsCalls = {}
    /\ webhookCalls = <<>>
    /\ issued = <<>>
    /\ crashed = FALSE
    /\ exited = -1
    /\ gen = 0
    /\ buffer = <<>>
    /\ handlers = {}
    /\ timer = {}
    /\ exitCode = -1
    /\ ioEvents = <<>>
    /\ smoothedData = <<>>
    /\ pushed = <<>>
    /\ smoothed = <<>>
    /\ alexaSends = <<>>
    /\ alexaTrace = {}
    /\ unhandled = FALSE

\* Capture: any of the scripts, TTS and webhook not configured.
InitCapture ==
    /\ program \in Programs
    /\ audio = 0
    /\ ENABLE_TTS = FALSE
    /\ WEBHOOK_ON_MESSAGE = FALSE
    /\ ENABLE_FILE_FALLBACK = FALSE
    /\ env = Credentials
    /\ InitCommon

\* Dispatch: part_002 under each configuration of its optional sinks; the audio
\* begins with the tone.
InitDispatch ==
    /\ program = "allinone"
    /\ audio = 0
    /\ ENABLE_TTS \in BOOLEAN
    /\ WEBHOOK_ON_MESSAGE \in BOOLEAN
    /\ ENABLE_FILE_FALLBACK = FALSE
    /\ env = Credentials
    /\ InitCommon

\* ------------------------------------------------------------ actions: part_002, Me2You.js:663-868
\* app.listen callback -> startMicrophoneCapture() / startRecording():
\* `if (recording) return;` then open the recorder's stream with an empty `pending`
startCapture ==
    /\ program \in {"allinone", "lpcm16"}
    /\ Running
    /\ ~ENABLE_FILE_FALLBACK
    /\ ~listening
    /\ listening' = TRUE
    /\ IF recording
       THEN UNCHANGED << recording, source, pending >>
       ELSE /\ recording' = TRUE
            /\ source' = "open"
            /\ pending' = <<>>
    /\ UNCHANGED << configVars, streamPos, emitted, analysed, lastChunk, classified,
                    dispatchVars, clients, conn, crashed, micVars >>

\* stream.on("data", chunk): a chunk of n bytes arrives
streamData(n) ==
    /\ program \in {"allinone", "lpcm16"}
    /\ Running
    /\ source = "open"
    /\ streamPos + n <= MaxBytes
    /\ LET st0 == [St EXCEPT !.pending = pending \o Iota(streamPos, n)]
       IN  \E s \in frameLoop(st0) :
             /\ Install(s)
             /\ lastChunk' = [total |-> Len(st0.pending),
                              frames |-> Len(s.emitted) - Len(emitted)]
    /\ streamPos' = streamPos + n
    /\ UNCHANGED << configVars, listening, recording, source, clients, conn, micVars >>

\* stream.on("error"): two console.error lines, nothing else
streamError ==
    /\ program \in {"allinone", "lpcm16", "signature"}
    /\ Running
    /\ source = "open"
    /\ source' = "errored"
    /\ console' = Append(console, [what |-> IF program = "signature" THEN "Mic error"
                                           ELSE "Mic stream error", ts |-> 0])
    /\ UNCHANGED << configVars, listening, recording, frameVars,
                    lastMessage, lastFreq, lastMag, logFile, dispatched,
                    written, lastBroadcast, ttsCalls, webhookCalls, issued,
                    clients, conn, crashed, micVars >>

\* A close handler that flushes the partial frame, zero-padded.
streamClose_flush ==
    /\ program \in {"allinone", "lpcm16"}
    /\ Running
    /\ source \in {"open", "errored"}
    /\ source' = IF source = "open" THEN "closed" ELSE "failed"
    /\ recording' = IF program = "lpcm16" THEN FALSE ELSE recording
    /\ IF source = "open" /\ pending # <<>>
       THEN /\ pending' = <<>>
            /\ emitted' = Append(emitted, pending)
            /\ analysed' = Append(analysed, padOrTrim(bufferToSamples(pending)))
       ELSE UNCHANGED << pending, emitted, analysed >>
    /\ UNCHANGED << configVars, listening, streamPos, lastChunk, classified, dispatchVars,
                    clients, conn, crashed, micVars >>

\* The stream closes.  part_002 listens to no close event; Me2You.js
\* startRecording sets running = false.
streamClose ==
    /\ program \in {"allinone", "lpcm16"}
    /\ Running
    /\ source \in {"open", "errored"}
    /\ source' = IF source = "open" THEN "closed" ELSE "failed"
    /\ recording' = IF program = "lpcm16" THEN FALSE ELSE recording
    /\ UNCHANGED << configVars, listening, frameVars, dispatchVars,
                    clients, conn, crashed, micVars >>

\* A handler that subscribes the response without the directive.
getEvents_noRetry(c) ==
    /\ program = "allinone"
    /\ Running
    /\ listening
    /\ conn[c] = "new"
    /\ \A d \in ClientIds : d < c => conn[d] # "new"
    /\ clients' = Append(clients, c)
    /\ conn' = [conn EXCEPT ![c] = "open"]
    /\ UNCHANGED << configVars, listening, recording, source, frameVars, dispatchVars,
                    crashed, micVars >>
\* GET /events: the retry directive, then clients.push(res)
getEvents(c) ==
    /\ program = "allinone"
    /\ Running
    /\ listening
    /\ conn[c] = "new"
    /\ \A d \in ClientIds : d < c => conn[d] # "new"
    /\ written' = [written EXCEPT ![c] = [retry |-> @.retry + 1,
                                          first |-> IF @.first = NONE THEN "retry" ELSE @.first,
                                          last |-> @.last]]
    /\ clients' = Append(clients, c)
    /\ conn' = [conn EXCEPT ![c] = "open"]
    /\ UNCHANGED << configVars, listening, recording, source, frameVars,
                    lastMessage, lastFreq, lastMag, logFile, console, dispatched,
                    lastBroadcast, ttsCalls, webhookCalls, issued, crashed, micVars >>

\* The subscriber's connection breaks; its close event has not been delivered.
connLost(c) ==
    /\ program = "allinone"
    /\ Running
    /\ conn[c] = "open"
    /\ conn' = [conn EXCEPT ![c] = "broken"]
    /\ UNCHANGED << configVars, listening, recording, source, frameVars, dispatchVars,
                    clients, crashed, micVars >>

\* A close handler that leaves the set as it is.
removeClient_kept(cs, c) == cs
\* clients.filter((r) => r !== res)
removeClient(cs, c) == SelectSeq(cs, LAMBDA r : r # c)

\* req.on("close")
reqClose(c) ==
    /\ program = "allinone"
    /\ Running
    /\ conn[c] \in {"open", "broken"}
    /\ conn' = [conn EXCEPT ![c] = "closed"]
    /\ clients' = removeClient(clients, c)
    /\ UNCHANGED << configVars, listening, recording, source, frameVars, dispatchVars,
                    crashed, micVars >>

\* The callback of exec("termux-tts-speak ...") of dispatch ts: with an error,
\* exec("espeak ..."), whose callback is empty; without, nothing
ttsCallback(ts, err) ==
    /\ program = "allinone"
    /\ Running
    /\ \E k \in ttsCalls : k.ts = ts
    /\ \A k \in ttsCalls : k.ts = ts => k.cmd # "espeak"
    /\ ttsCalls' = IF err
                   THEN ttsCalls \cup
                        { [k EXCEPT !.cmd = "espeak"] : k \in {x \in ttsCalls : x.ts = ts} }
                   ELSE ttsCalls
    /\ UNCHANGED << configVars, listening, recording, source, frameVars,
                    lastMessage, lastFreq, lastMag, logFile, console, dispatched,
                    written, lastBroadcast, webhookCalls, issued, clients, conn, crashed, micVars >>

\* The curl of the i-th exec() call exits, having delivered the payload or not:
\* the callback is `() => {}`
webhookExit(i, ok) ==
    /\ program = "allinone"
    /\ Running
    /\ i \in 1..Len(webhookCalls)
    /\ webhookCalls[i].exec = "running"
    /\ webhookCalls' = [webhookCalls EXCEPT ![i].exec = IF ok THEN "exited" ELSE "failed"]
    /\ UNCHANGED << configVars, listening, recording, source, frameVars,
                    lastMessage, lastFreq, lastMag, logFile, console, dispatched,
                    written, lastBroadcast, ttsCalls, issued, clients, conn, crashed,
                    micVars >>

\* process.on("SIGINT"): part_002 and the script of part_000:147-233 stop the
\* recorder if one is set, inside a try, and call process.exit(0); Me2You.js
\* startRecording keeps the recorder in a local variable and its handler calls
\* process.exit(0) only.  Nothing outstanding is waited for.
sigint ==
    /\ program \in {"allinone", "lpcm16", "recorder"}
    /\ Running
    /\ exited' = 0
    /\ source' = IF program # "lpcm16" /\ recording /\ source \in {"open", "errored"}
                 THEN "stopped"
                 ELSE source
    /\ UNCHANGED << program, audio, ENABLE_TTS, WEBHOOK_ON_MESSAGE, ENABLE_FILE_FALLBACK, env,
                    listening, recording, frameVars, dispatchVars, clients, conn,
                    crashed, micVars >>

\* ------------------------------------------------------------ file fallback (part_002:176-215)
\* The header processWavFile assumes, in bytes.
WAV_HEADER == 44
\* The delay between a watch event and the file being read.
fileDelay(script) == IF script = "recorder" THEN 900 ELSE 800

\* The lengths of the files that appear in recordings/: a byte short of the
\* header, the header alone, the header and less than a frame, a whole frame,
\* and more.
FileLengths == { WAV_HEADER - 1, WAV_HEADER, WAV_HEADER + needed - 2,
                 WAV_HEADER + needed - 1, WAV_HEADER + needed, WAV_HEADER + needed + 3 }
FileMaxBytes == MaxFiles * (WAV_HEADER + needed + 3)

\* buf.slice(44)
audioOf(buf) == SubSeq(buf, WAV_HEADER + 1, Len(buf))

\* processWavFile's loop: `for (i = 0; i + 1 < audioBuf.length; i += 2)` pushes
\* a sample and breaks once there are FRAME_SIZE
wavSamples(audioBuf) ==
    LET all == bufferToSamples(audioBuf)
    IN  SubSeq(all, 1, IF Len(all) < FRAME_SIZE THEN Len(all) ELSE FRAME_SIZE)

\* A test that lets every file through.
tooFewSamples_never(samples) == FALSE
\* `if (samples.length < FRAME_SIZE) return;`
tooFewSamples(samples) == Len(samples) < FRAME_SIZE

\* The analysis of `samples` as the next frame, and the dispatch of its message.
analyseFile(st, samples, logOk) ==
    LET s1 == [st EXCEPT !.emitted = Append(@, Flatten(samples)),
                         !.analysed = Append(@, padOrTrim(samples))]
        k == Len(s1.analysed)
        pk == PeakOf(k)
        s2 == [s1 EXCEPT !.classified = [Unclassified EXCEPT !.frame = k,
                                                             !.spectrum = runFFTOnSamples(k)]]
    IN  handleNewMessage(s2, pk.freq, pk.mag, logOk)

\* processWavFile(filePath) on a file holding `buf`: readOk is whether
\* readFileSync succeeds; whatever is thrown is caught and logged
processWavFile(st, buf, readOk, logOk) ==
    IF ~readOk
    THEN [st EXCEPT !.console = Append(@, [what |-> "Failed to process wav file", ts |-> 0])]
    ELSE IF Len(buf) < WAV_HEADER THEN st
    ELSE LET samples == wavSamples(audioOf(buf))
         IN  IF tooFewSamples(samples) THEN st
             ELSE LET r == analyseFile(st, samples, logOk)
                  IN  IF r.exc = NONE THEN r
                      ELSE [r EXCEPT !.exc = NONE,
                                     !.console = Append(@, [what |-> "Failed to process wav file",
                                                            ts |-> 0])]

\* runFFT(samples), dominantFreqFromMags(mags, SAMPLE_RATE) and
\* onNewMessage(freq, mag, mags) of the script of part_000:147-233: the samples
\* are zero-padded to a frame, analysed, and the message dispatched.
onNewMessage(st, samples, logOk) == analyseFile(st, samples, logOk)

\* The timer callback of watchRecordings (part_000:149-162): the header test
\* only, `buf.slice(44, 44 + FRAME_SIZE*2)`, and an empty catch
watchRecordings(st, buf, readOk, logOk) ==
    IF ~readOk \/ Len(buf) < WAV_HEADER THEN st
    ELSE LET slice == SubSeq(audioOf(buf), 1,
                             IF Len(buf) - WAV_HEADER < needed THEN Len(buf) - WAV_HEADER
                             ELSE needed)
             r == onNewMessage(st, bufferToSamples(slice), logOk)
         IN  [r EXCEPT !.exc = NONE]

\* app.listen callback with the file fallback enabled: watchRecordingsFolder()
startFallback ==
    /\ program \in {"allinone", "recorder"}
    /\ Running
    /\ ENABLE_FILE_FALLBACK
    /\ ~listening
    /\ listening' = TRUE
    /\ source' = "watching"
    /\ UNCHANGED << configVars, recording, frameVars, dispatchVars, clients, conn,
                    crashed, micVars >>

\* fs.watch callback for a file of n bytes: `if (!fname) return;` then setTimeout
fsWatch(n, fname) ==
    /\ program \in {"allinone", "recorder"}
    /\ Running
    /\ source = "watching"
    /\ streamPos + n <= FileMaxBytes
    /\ Cardinality(timer) < MaxInflight
    /\ streamPos' = streamPos + n
    /\ timer' = IF fname
                THEN timer \cup {[delay |-> fileDelay(program), first |-> streamPos, len |-> n]}
                ELSE timer
    /\ UNCHANGED << configVars, listening, recording, source, pending, emitted, analysed,
                    lastChunk, classified, dispatchVars, clients, conn, crashed,
                    gen, buffer, handlers, exitCode, ioEvents, smoothVars,
                    alexaSends, alexaTrace, unhandled >>

\* The timer callback of the oldest watch event: `if (fs.existsSync(fp))` then
\* the file is read and processed
fileTimer(exists, readOk, logOk) ==
    /\ program \in {"allinone", "recorder"}
    /\ Running
    /\ timer # {}
    /\ LET t == CHOOSE x \in timer : \A y \in timer : x.first <= y.first
           buf == Iota(t.first, t.len)
           s == IF ~exists THEN St
                ELSE IF program = "allinone" THEN processWavFile(St, buf, readOk, logOk)
                ELSE watchRecordings(St, buf, readOk, logOk)
       IN  /\ timer' = timer \ {t}
           /\ Install(s)
           /\ lastChunk' = [total |-> IF exists /\ readOk THEN t.len ELSE 0,
                            frames |-> Len(s.emitted) - Len(emitted)]
    /\ UNCHANGED << configVars, listening, recording, source, streamPos, clients, conn,
                    gen, buffer, handlers, exitCode, ioEvents, smoothVars,
                    alexaSends, alexaTrace, unhandled >>

\* ------------------------------------------------------------ actions: Me2You.js:1-184
\* `data.choices?.[0]?.message?.content` of the completion request: a text, or
\* nothing ("": the field is absent or empty, or the request threw).
MicMessages == {"", "reply"}

\* What frequencyToMessage(mags) resolves to, given the completion's content:
\* `content || bandSymbols.join(' | ')`, which is '' when no band matched; in
\* part_000, `content || ''`.
frequencyToMessage(content, mags) ==
    IF content # "" THEN content
    ELSE IF program = "arecord_cli" THEN ""
    ELSE join(mapFrequenciesToSymbols(mags))

\* A startMic whose timer stays armed after it has fired.
startMic_rearmed ==
    /\ gen' = gen + 1
    /\ buffer' = <<>>
    /\ source' = "open"
    /\ timer' = timer

\* startMic(): spawn arecord, `let buffer = Buffer.alloc(0)`
startMic ==
    /\ gen' = gen + 1
    /\ buffer' = <<>>
    /\ source' = "open"
    /\ timer' = {}

\* `if(!ALEXA_SKILL_ID || !ALEXA_CLIENT_ID || !ALEXA_CLIENT_SECRET ||
\* !ALEXA_REFRESH_TOKEN || !OPENAI_API_KEY)` of Me2You.js:25 and part_001:25;
\* part_000 destructures the same variables and has no such statement
requiredMissing(script) == script # "arecord_cli" /\ env # Credentials

\* The script from its first line: the startup check, which logs and calls
\* process.exit(1), then server.listen (part_000 has no server), and at the
\* script's end its own call of startMic()
runScript ==
    /\ program \in MicPrograms
    /\ Running
    /\ gen = 0
    /\ IF requiredMissing(program)
       THEN /\ exited' = 1
            /\ console' = Append(console, [what |-> "Missing env vars", ts |-> 0])
            /\ UNCHANGED << listening, gen, buffer, source, timer >>
       ELSE /\ listening' = (program # "arecord_cli")
            /\ startMic
            /\ UNCHANGED << exited, console >>
    /\ UNCHANGED << program, audio, ENABLE_TTS, WEBHOOK_ON_MESSAGE, ENABLE_FILE_FALLBACK, env,
                    recording, frameVars, lastMessage, lastFreq, lastMag, logFile,
                    dispatched, written, lastBroadcast, ttsCalls, webhookCalls, issued,
                    clients, conn, crashed, handlers, exitCode, ioEvents, smoothVars,
                    alexaSends, alexaTrace, unhandled >>

\* the callback of setTimeout(startMic, 1000)
restartTimer ==
    /\ program \in MicPrograms
    /\ Running
    /\ timer # {}
    /\ startMic
    /\ UNCHANGED << configVars, listening, recording, frameVars, dispatchVars,
                    clients, conn, crashed, handlers, exitCode, ioEvents, smoothVars,
                    alexaSends,
                    alexaTrace, unhandled >>

\* The delay the close handler passes to setTimeout, after `restarts` restarts.
restartDelay(restarts) == RESTART_DELAY_MS

\* A close handler that restarts after a failure only.
micClose_onFailureOnly(code) ==
    /\ program \in MicPrograms
    /\ Running
    /\ source = "open"
    /\ gen <= MaxRestarts
    /\ source' = "closed"
    /\ exitCode' = code
    /\ timer' = IF code # 0 THEN timer \cup {restartDelay(gen - 1)} ELSE timer
    /\ UNCHANGED << configVars, listening, recording, frameVars, dispatchVars,
                    clients, conn, crashed, gen, buffer, handlers, ioEvents, smoothVars,
                    alexaSends,
                    alexaTrace, unhandled >>

\* arecord.on('close', code => { ...; setTimeout(startMic, 1000); }); the close
\* handler of part_000 only logs the code
micClose(code) ==
    /\ program \in MicPrograms
    /\ Running
    /\ source = "open"
    /\ gen <= MaxRestarts
    /\ source' = "closed"
    /\ exitCode' = code
    /\ timer' = IF program = "arecord_cli" THEN timer
              ELSE timer \cup {restartDelay(gen - 1)}
    /\ UNCHANGED << configVars, listening, recording, frameVars, dispatchVars,
                    clients, conn, crashed, gen, buffer, handlers, ioEvents, smoothVars,
                    alexaSends,
                    alexaTrace, unhandled >>

\* The child process emits 'error' (arecord cannot be spawned or killed).
\* startMic registers no 'error' listener, so the event is thrown as an
\* uncaught exception and ends the process.
micError ==
    /\ program \in MicPrograms
    /\ Running
    /\ source = "open"
    /\ source' = "failed"
    /\ crashed' = TRUE
    /\ UNCHANGED << configVars, listening, recording, frameVars, dispatchVars,
                    clients, conn, micVars >>

\* A handler that calls smoothFrequencies and goes on with the raw spectrum.
reassigned_not(mags, out) == mags
\* `mags=smoothFrequencies(mags)`: what `mags` holds from there on, which is what
\* frequencyToMessage, mapFrequenciesToSymbols and io.emit are given
reassigned(mags, out) == out

\* arecord.stdout.on('data', async chunk => ...) up to `await frequencyToMessage`:
\* concat, and if the buffer holds a frame, read its samples and suspend.
\* part_000 empties the buffer before it suspends, the others after, and it
\* does not smooth: `mags=smoothFrequencies(mags)` is in the others only.
micData(n) ==
    /\ program \in MicPrograms
    /\ Running
    /\ source = "open"
    /\ streamPos + n <= MicMaxBytes
    /\ LET buf == buffer \o Iota(streamPos, n)
       IN  /\ buffer' = IF Len(buf) >= needed /\ program = "arecord_cli" THEN <<>> ELSE buf
           /\ IF Len(buf) >= needed
              THEN /\ Cardinality(handlers) < MaxInflight
                   /\ Len(emitted) < MaxFrames
                   /\ emitted' = Append(emitted, SubSeq(buf, 1, needed))
                   /\ analysed' = Append(analysed, readSamples(buf))
                   /\ lastChunk' = [total |-> Len(buf), frames |-> 1]
                   /\ LET k == Len(emitted) + 1
                           mags == MicSpectrum(k)
                           r == smoothFrequencies(smoothedData, mags)
                       IN  IF program = "arecord_cli"
                           THEN /\ classified' = [Unclassified EXCEPT !.frame = k,
                                                                      !.spectrum = mags]
                                /\ handlers' = handlers \cup
                                       {[frame |-> k, gen |-> gen, mags |-> mags]}
                                /\ UNCHANGED smoothVars
                           ELSE /\ smoothedData' = r.smoothedData
                                /\ pushed' = Append(pushed, mags)
                                /\ smoothed' = r.out
                                /\ classified' = [Unclassified EXCEPT
                                                    !.frame = k,
                                                    !.spectrum = reassigned(mags, r.out)]
                                /\ handlers' = handlers \cup
                                       {[frame |-> k, gen |-> gen,
                                         mags |-> reassigned(mags, r.out)]}
              ELSE /\ lastChunk' = [total |-> Len(buf), frames |-> 0]
                   /\ UNCHANGED << emitted, analysed, handlers, smoothVars, classified >>
    /\ streamPos' = streamPos + n
    /\ UNCHANGED << configVars, listening, recording, source, pending, dispatchVars,
                    clients, conn, crashed, gen, timer, exitCode, ioEvents, alexaSends,
                    alexaTrace, unhandled >>

\* logMessage: appendFileSync(logFile, JSON.stringify({timestamp, message, ...}) + '\n')
logMessage(log, entry) == log \o <<entry, "\n">>

\* One buffer shared by every invocation: any handler empties it.
resetBuffer_shared(b, g) == <<>>
\* `buffer = Buffer.alloc(0)` in a handler of invocation g: it assigns the
\* closure's own variable, which is the running invocation's only if g is it
resetBuffer(b, g) == IF g = gen THEN <<>> ELSE b

\* What the completion request comes to: a content, or in part_000, whose
\* frequencyToMessage has no try, the rejection of its fetch.
REJECTED == "<rejected>"
MicOutcomes == MicMessages \cup {REJECTED}

\* The rest of the data handler, once the completion request has come to
\* `content` and frequencyToMessage has resolved to `message`: io.emit; if (message) { sendMessageToAlexa; logMessage }; then
\* buffer = Buffer.alloc(0).  logMessage's appendFileSync may throw, which
\* rejects the handler's promise before the buffer is reset; the rejection is
\* unhandled, and ends the process or not, by the runtime's policy.
\* part_000: if (message) sendMessageToAlexa(message), nothing else.
micResume(h, content, logOk, dies) ==
    /\ program \in MicPrograms
    /\ Running
    /\ h \in handlers
    /\ content = REJECTED => program = "arecord_cli"
    /\ handlers' = handlers \ {h}
    /\ LET message == frequencyToMessage(content, h.mags) IN
       IF content = REJECTED
       THEN /\ unhandled' = TRUE
            /\ crashed' = dies
            /\ UNCHANGED << ioEvents, dispatched, alexaSends, logFile, buffer >>
       ELSE IF program = "arecord_cli"
       THEN /\ dispatched' = Append(dispatched, h.frame)
            /\ alexaSends' = IF message # ""
                             THEN Append(alexaSends, [frame |-> h.frame, message |-> message])
                             ELSE alexaSends
            /\ UNCHANGED << ioEvents, logFile, buffer, unhandled, crashed >>
       ELSE /\ ioEvents' = Append(ioEvents, [frame |-> h.frame, magnitudes |-> h.mags,
                                             symbols |-> mapFrequenciesToSymbols(h.mags),
                                             message |-> message])
            /\ dispatched' = Append(dispatched, h.frame)
            /\ IF message # ""
               THEN /\ alexaSends' = Append(alexaSends, [frame |-> h.frame, message |-> message])
                    /\ IF logOk
                       THEN /\ logFile' = logMessage(logFile, [ts |-> Len(dispatched) + 1,
                                                        message |-> message, frame |-> h.frame])
                            /\ buffer' = resetBuffer(buffer, h.gen)
                            /\ UNCHANGED << unhandled, crashed >>
                       ELSE /\ unhandled' = TRUE
                            /\ crashed' = dies
                            /\ UNCHANGED << logFile, buffer >>
               ELSE /\ buffer' = resetBuffer(buffer, h.gen)
                    /\ UNCHANGED << alexaSends, logFile, unhandled, crashed >>
    /\ UNCHANGED << configVars, listening, recording, source, frameVars,
                    lastMessage, lastFreq, lastMag, console, written, lastBroadcast,
                    ttsCalls, webhookCalls, issued, clients, conn,
                    gen, timer, exitCode, smoothVars, alexaTrace >>

\* ------------------------------------------------------------ the voice-assistant sink
\* What the token endpoint's answer comes to in getAlexaAccessToken: an access
\* token, a response without access_token (the function returns undefined), or
\* a fetch or resp.json() that throws.
TokenOutcomes == {"token", "notoken", "threw"}

\* sendMessageToAlexa from its first line to the notification request, given
\* the outcome of `await getAlexaAccessToken()`: the events of the call, whether
\* it wrote to console.error, and whether the promise it returned is rejected.
\* Me2You.js:66-83: the whole body is inside the try, `if(!token) return`.
sendMessageToAlexa(outcome) ==
    IF outcome = "threw" THEN [events |-> {"threw", "caught"}, logged |-> TRUE, rejects |-> FALSE]
    ELSE IF outcome = "notoken" THEN [events |-> {"notoken"}, logged |-> FALSE, rejects |-> FALSE]
    ELSE [events |-> {"token", "requested"}, logged |-> FALSE, rejects |-> FALSE]

\* part_001:74-98: the token is awaited before the try, `if (!token) return`.
sendMessageToAlexa_ui(outcome) ==
    IF outcome = "threw" THEN [events |-> {"threw", "rejected"}, logged |-> FALSE, rejects |-> TRUE]
    ELSE IF outcome = "notoken" THEN [events |-> {"notoken"}, logged |-> FALSE, rejects |-> FALSE]
    ELSE [events |-> {"token", "requested"}, logged |-> FALSE, rejects |-> FALSE]

\* part_000:47-72: the token is awaited before the try and is not tested; the
\* request carries `Bearer ${token}` whatever the token is.
sendMessageToAlexa_cli(outcome) ==
    IF outcome = "threw" THEN [events |-> {"threw", "rejected"}, logged |-> FALSE, rejects |-> TRUE]
    ELSE IF outcome = "notoken" THEN [events |-> {"notoken", "requested"}, logged |-> FALSE,
                                      rejects |-> FALSE]
    ELSE [events |-> {"token", "requested"}, logged |-> FALSE, rejects |-> FALSE]

AlexaEvents(id) == {e.ev : e \in {x \in alexaTrace : x.id = id}}

\* The token fetch of the id-th sendMessageToAlexa call completes.  The caller
\* does not await the call and attaches no catch: a rejected call is an
\* unhandled rejection, which ends the process or not, by the runtime's policy.
tokenFetched(id, outcome, dies) ==
    /\ program \in MicPrograms
    /\ Running
    /\ id \in 1..Len(alexaSends)
    /\ AlexaEvents(id) = {}
    /\ LET r == IF program = "arecord" THEN sendMessageToAlexa(outcome)
                ELSE IF program = "arecord_ui" THEN sendMessageToAlexa_ui(outcome)
                ELSE sendMessageToAlexa_cli(outcome)
       IN  /\ alexaTrace' = alexaTrace \cup {[id |-> id, ev |-> e] : e \in r.events}
           /\ console' = IF r.logged THEN Append(console, [what |-> "[Alexa] Error", ts |-> id])
                         ELSE console
           /\ unhandled' = (unhandled \/ r.rejects)
           /\ crashed' = (r.rejects /\ dies)
    /\ UNCHANGED << configVars, listening, recording, source, frameVars,
                    lastMessage, lastFreq, lastMag, logFile, dispatched, written,
                    lastBroadcast, ttsCalls, webhookCalls, issued, clients, conn,
                    gen, buffer, handlers, timer, exitCode, ioEvents, smoothVars,
                    alexaSends >>

\* The notification request of the id-th call completes: `await fetch(...)`
\* inside the try of every variant, then console.log, or the catch's console.error.
notified(id, ok) ==
    /\ program \in MicPrograms
    /\ Running
    /\ "requested" \in AlexaEvents(id)
    /\ AlexaEvents(id) \cap {"sent", "posterr"} = {}
    /\ alexaTrace' = alexaTrace \cup {[id |-> id, ev |-> IF ok THEN "sent" ELSE "posterr"]}
    /\ console' = IF ok THEN console
                  ELSE Append(console, [what |-> "[Alexa] Error", ts |-> id])
    /\ UNCHANGED << configVars, listening, recording, source, frameVars,
                    lastMessage, lastFreq, lastMag, logFile, dispatched, written,
                    lastBroadcast, ttsCalls, webhookCalls, issued, clients, conn, crashed,
                    gen, buffer, handlers, timer, exitCode, ioEvents, smoothVars,
                    alexaSends, unhandled >>

\* ------------------------------------------------------------ signature path (part_000:236-278)
\* `i * (16000 / mags.length)` of bin i (from 0), the model's bins 300 Hz apart:
\* 600 Hz inside the low window, 1200 Hz on the edge of the high window, 1500
\* and 1800 Hz inside it, 2100 Hz past it.
SIG_BIN_HZ == 300

\* The spectra of the chunks: each bin at the floor of 3000 or just above it.
SigBins == {2, 4, 5, 6}
SigSpectrum(S) == [i \in 1..8 |-> IF (i - 1) \in S THEN 3001 ELSE 3000]
SigSpectra == {SigSpectrum(S) : S \in SUBSET SigBins}

\* The counting loop of analyzeFrequencies.
analyzeFrequencies(mags) ==
    LET freq(i) == i * SIG_BIN_HZ
        bins == 0..(Len(mags) - 1)
    IN  [redCount |-> Cardinality({i \in bins : freq(i) > 400 /\ freq(i) < 800
                                                 /\ mags[i + 1] > 3000}),
         blueCount |-> Cardinality({i \in bins : freq(i) > 1200 /\ freq(i) < 2000
                                                  /\ mags[i + 1] > 3000})]

\* A test of the low window only.
nothingDetected_lowOnly(redCount, blueCount) == redCount = 0
\* `if (redCount + blueCount === 0) return;`
nothingDetected(redCount, blueCount) == redCount + blueCount = 0

\* decodeBlinkPattern(redCount, blueCount): the phrase of the key
\* "{redCount}R{blueCount}B", as the pieces of the key.
decodeBlinkPattern(redCount, blueCount) == << redCount, "R", blueCount, "B" >>

\* startMe2You(): the device stream is opened and the handlers attached.
startMe2You ==
    /\ program = "signature"
    /\ Running
    /\ source = "none"
    /\ source' = "open"
    /\ UNCHANGED << configVars, listening, recording, frameVars, dispatchVars,
                    clients, conn, crashed, micVars >>

\* stream.on("data", async chunk => ...) up to `await speakToAlexa(message)`,
\* for a chunk whose spectrum is mags.
signatureData(mags) ==
    /\ program = "signature"
    /\ Running
    /\ source = "open"
    /\ Len(analysed) < MaxFrames
    /\ LET k == Len(analysed) + 1
           c == analyzeFrequencies(mags)
           message == decodeBlinkPattern(c.redCount, c.blueCount)
       IN  /\ analysed' = Append(analysed, mags)
           /\ classified' = c @@ [Unclassified EXCEPT !.frame = k, !.spectrum = mags]
           /\ IF nothingDetected(c.redCount, c.blueCount)
              THEN UNCHANGED << console, alexaSends >>
              ELSE /\ console' = Append(console, [what |-> "Detected", ts |-> k])
                   /\ alexaSends' = Append(alexaSends, [frame |-> k, message |-> message])
    /\ UNCHANGED << configVars, listening, recording, source, streamPos, pending,
                    emitted, lastChunk, lastMessage, lastFreq, lastMag, logFile,
                    dispatched, written, lastBroadcast, ttsCalls, webhookCalls, issued,
                    clients, conn, crashed, gen, buffer, handlers, timer, exitCode,
                    ioEvents, smoothVars, alexaTrace, unhandled >>

\* `await speakToAlexa(message)` of the id-th call settles.  Nothing follows
\* it in the handler, and nothing catches the handler's promise.
spoken(id, ok, dies) ==
    /\ program = "signature"
    /\ Running
    /\ id \in 1..Len(alexaSends)
    /\ AlexaEvents(id) = {}
    /\ alexaTrace' = alexaTrace \cup {[id |-> id, ev |-> IF ok THEN "requested" ELSE "rejected"]}
    /\ unhandled' = (unhandled \/ ~ok)
    /\ crashed' = (~ok /\ dies)
    /\ UNCHANGED << configVars, listening, recording, source, frameVars, dispatchVars,
                    clients, conn, gen, buffer, handlers, timer, exitCode, ioEvents,
                    smoothVars, alexaSends >>

\* ------------------------------------------------------------ specifications
\* Startup: a script that reads the credentials, under every subset of them
\* defined, and what it goes on to do.
InitStartup ==
    /\ program \in MicPrograms
    /\ audio \in 0..(BaseTracks - 1)
    /\ ENABLE_TTS = FALSE
    /\ WEBHOOK_ON_MESSAGE = FALSE
    /\ ENABLE_FILE_FALLBACK = FALSE
    /\ env \in SUBSET Credentials
    /\ InitCommon

NextStartup ==
    \/ runScript
    \/ micData(needed)
    \/ \E h \in handlers, m \in MicOutcomes : micResume(h, m, TRUE, TRUE)
    \/ \E id \in 1..MaxFrames, o \in TokenOutcomes : tokenFetched(id, o, TRUE)

SpecStartup == InitStartup /\ [][NextStartup]_vars

\* Shutdown: the scripts that handle SIGINT, capturing and delivering, with
\* the signal arriving at any moment.
InitShutdown ==
    /\ program \in {"allinone", "lpcm16"}
    /\ audio = 0
    /\ ENABLE_TTS = FALSE
    /\ WEBHOOK_ON_MESSAGE \in BOOLEAN
    /\ ENABLE_FILE_FALLBACK = FALSE
    /\ env = Credentials
    /\ InitCommon

NextShutdown ==
    \/ startCapture
    \/ \E n \in {1, needed} : streamData(n)
    \/ streamError
    \/ \E i \in 1..MaxFrames, ok \in BOOLEAN : webhookExit(i, ok)
    \/ sigint

SpecShutdown == InitShutdown /\ [][NextShutdown]_vars

\* Delivery: the outbound calls of part_002 (webhook) and of startMic (voice
\* assistant), whole frames arriving while calls are outstanding.
InitDelivery ==
    /\ program \in {"allinone"} \cup MicPrograms
    /\ audio = 1
    /\ ENABLE_TTS = FALSE
    /\ WEBHOOK_ON_MESSAGE \in BOOLEAN
    /\ ENABLE_FILE_FALLBACK = FALSE
    /\ env = Credentials
    /\ InitCommon

NextDelivery ==
    \/ startCapture
    \/ \E n \in {needed, 2 * needed} : streamData(n)
    \/ \E i \in 1..MaxFrames, ok \in BOOLEAN : webhookExit(i, ok)
    \/ runScript
    \/ micData(needed)
    \/ \E h \in handlers, m \in MicMessages : micResume(h, m, TRUE, TRUE)
    \/ \E id \in 1..MaxFrames, o \in TokenOutcomes : tokenFetched(id, o, TRUE)
    \/ \E id \in 1..MaxFrames, ok \in BOOLEAN : notified(id, ok)

SpecDelivery == InitDelivery /\ [][NextDelivery]_vars

\* File fallback: part_002 and the watcher of part_000:147-163, with files of
\* every length, subscribers, and a log that may refuse the append.
InitFiles ==
    /\ program \in {"allinone", "recorder"}
    /\ audio \in 0..(BaseTracks - 1)
    /\ ENABLE_TTS = FALSE
    /\ WEBHOOK_ON_MESSAGE \in BOOLEAN
    /\ ENABLE_FILE_FALLBACK = TRUE
    /\ env = Credentials
    /\ InitCommon

NextFiles ==
    \/ startFallback
    \/ \E n \in FileLengths, fname \in BOOLEAN : fsWatch(n, fname)
    \/ \E exists \in BOOLEAN, readOk \in BOOLEAN, logOk \in BOOLEAN :
          fileTimer(exists, readOk, logOk)
    \/ getEvents(1)

SpecFiles == InitFiles /\ [][NextFiles]_vars

\* The classifiers alone: mapColor and interpretYesNo applied to a frequency,
\* every 20 Hz from 0 to 2000 with the values on either side of each limit,
\* and to the values that are not numbers.
LabelInputs ==
    {NaN, UNDEFINED} \cup {20 * k : k \in 0..100}
        \cup {199, 201, 299, 301, 699, 701, 999, 1001, 1499, 1501}

classify(freq) ==
    /\ Running
    /\ classified' = [Unclassified EXCEPT !.freq = freq,
                                          !.yesNo = interpretYesNo(freq),
                                          !.color = mapColor(freq)]
    /\ UNCHANGED << configVars, listening, recording, source, streamPos, pending,
                    emitted, analysed, lastChunk, dispatchVars, clients, conn,
                    crashed, micVars >>

InitLabels ==
    /\ program = "allinone"
    /\ audio = 0
    /\ ENABLE_TTS = FALSE
    /\ WEBHOOK_ON_MESSAGE = FALSE
    /\ ENABLE_FILE_FALLBACK = FALSE
    /\ env = Credentials
    /\ InitCommon

NextLabels == \E freq \in LabelInputs : classify(freq)

SpecLabels == InitLabels /\ [][NextLabels]_vars

\* mapFrequenciesToSymbols alone, on every spectrum of SymbolBins bins with
\* magnitudes of nothing, just under MIN_CONFIDENCE of the largest, just at it,
\* and the largest; one call in a run.
SymbolInputs == [1..SymbolBins -> {0, 4, 5, 100}]

symbolsOf(freqData) ==
    /\ Running
    /\ ioEvents = <<>>
    /\ ioEvents' = << [frame |-> 0, magnitudes |-> freqData,
                       symbols |-> mapFrequenciesToSymbols(freqData),
                       message |-> join(mapFrequenciesToSymbols(freqData))] >>
    /\ UNCHANGED << configVars, listening, recording, source, frameVars, dispatchVars,
                    clients, conn, crashed, gen, buffer, handlers, timer, exitCode,
                    smoothVars, alexaSends, alexaTrace, unhandled >>

NextSymbols == \E freqData \in SymbolInputs : symbolsOf(freqData)

SpecSymbols == InitLabels /\ [][NextSymbols]_vars

\* The signature script, chunks of every spectrum arriving.
InitSignature ==
    /\ program = "signature"
    /\ audio = 0
    /\ ENABLE_TTS = FALSE
    /\ WEBHOOK_ON_MESSAGE = FALSE
    /\ ENABLE_FILE_FALLBACK = FALSE
    /\ env = Credentials
    /\ InitCommon

NextSignature ==
    \/ startMe2You
    \/ \E mags \in SigSpectra : signatureData(mags)
    \/ \E id \in 1..MaxFrames, ok \in BOOLEAN, dies \in BOOLEAN : spoken(id, ok, dies)
    \/ streamError

SpecSignature == InitSignature /\ [][NextSignature]_vars

\* runFFTOnSamples alone, on every array of up to FRAME_SIZE + 2 samples: the
\* rest of the function after the pad or trim, fft() and the magnitude of each
\* phasor, gives one bin per sample it is handed.
fftMags(samples) == [i \in 1..Len(samples) |-> [bin |-> i - 1, of |-> samples]]

SampleInputs ==
    UNION { [1..n -> {ZERO, "lo", "hi"}] : n \in 0..(FRAME_SIZE + 2) }

runFFT(samples) ==
    /\ Running
    /\ analysed = <<>>
    /\ analysed' = << padOrTrim(samples) >>
    /\ classified' = [input |-> samples]
                      @@ [Unclassified EXCEPT !.spectrum = fftMags(padOrTrim(samples))]
    /\ UNCHANGED << configVars, listening, recording, source, streamPos, pending,
                    emitted, lastChunk, dispatchVars, clients, conn, crashed, micVars >>

NextFFT == \E samples \in SampleInputs : runFFT(samples)

SpecFFT == InitLabels /\ [][NextFFT]_vars

NextDispatch ==
    \/ startCapture
    \/ \E n \in {needed, 2 * needed} : streamData(n)
    \/ \E c \in ClientIds : getEvents(c)
    \/ \E c \in ClientIds : connLost(c)
    \/ \E c \in ClientIds : reqClose(c)
    \/ \E ts \in 1..MaxFrames, err \in BOOLEAN : ttsCallback(ts, err)

\* The sinks of part_002: whole frames arrive, subscribers come and go.
SpecDispatch == InitDispatch /\ [][NextDispatch]_vars

NextCapture ==
    \/ startCapture
    \/ \E n \in 1..MaxChunk : streamData(n)
    \/ streamError
    \/ streamClose
    \/ runScript
    \/ \E n \in 1..MaxChunk : micData(n)
    \/ \E h \in handlers, m \in MicMessages, ok \in BOOLEAN, dies \in BOOLEAN :
          micResume(h, m, ok, dies)
    \/ \E code \in {0, 1} : micClose(code)
    \/ micError
    \/ restartTimer

\* smoothFrequencies(mags) is called with a spectrum.
pushSpectrum(mags) ==
    /\ Len(pushed) < MaxPushes
    /\ LET r == smoothFrequencies(smoothedData, mags)
       IN  /\ smoothedData' = r.smoothedData
           /\ pushed' = Append(pushed, mags)
           /\ smoothed' = r.out
    /\ UNCHANGED << configVars, listening, recording, source, frameVars, dispatchVars,
                    clients, conn, crashed, gen, buffer, handlers, timer, exitCode,
                    ioEvents, alexaSends, alexaTrace, unhandled >>

\* The smoother alone: any of Spectra, in any order.
InitSmooth ==
    /\ program = "arecord"
    /\ audio = 0
    /\ ENABLE_TTS = FALSE
    /\ WEBHOOK_ON_MESSAGE = FALSE
    /\ ENABLE_FILE_FALLBACK = FALSE
    /\ env = Credentials
    /\ InitCommon

NextSmooth == \E mags \in Spectra : pushSpectrum(mags)

SpecSmooth == InitSmooth /\ [][NextSmooth]_vars

\* Every script on whole frames, playing any of the tracks.
InitPipeline ==
    /\ program \in Programs \cup MicPrograms
    /\ audio \in 0..(NTracks - 1)
    /\ ENABLE_TTS = FALSE
    /\ WEBHOOK_ON_MESSAGE = FALSE
    /\ ENABLE_FILE_FALLBACK = FALSE
    /\ env = Credentials
    /\ InitCommon

NextPipeline ==
    \/ startCapture
    \/ streamData(needed)
    \/ runScript
    \/ micData(needed)
    \/ \E h \in handlers, m \in MicOutcomes, dies \in BOOLEAN : micResume(h, m, TRUE, dies)

SpecPipeline == InitPipeline /\ [][NextPipeline]_vars

\* Capture by startMic under each of its three scripts, whole frames only and a
\* writable log file, with the voice-assistant sink's requests completing in
\* any order.
InitAlexa ==
    /\ program \in MicPrograms
    /\ audio = 0
    /\ ENABLE_TTS = FALSE
    /\ WEBHOOK_ON_MESSAGE = FALSE
    /\ ENABLE_FILE_FALLBACK = FALSE
    /\ env = Credentials
    /\ InitCommon

NextAlexa ==
    \/ runScript
    \/ micData(needed)
    \/ \E h \in handlers, m \in MicOutcomes, dies \in BOOLEAN : micResume(h, m, TRUE, dies)
    \/ \E id \in 1..MaxFrames, o \in TokenOutcomes, dies \in BOOLEAN : tokenFetched(id, o, dies)
    \/ \E id \in 1..MaxFrames, ok \in BOOLEAN : notified(id, ok)

SpecAlexa == InitAlexa /\ [][NextAlexa]_vars

\* The capture paths: chunks of any size, stream errors and closes.
SpecCapture == InitCapture /\ [][NextCapture]_vars

\* The event loop runs a timer's callback once its delay has passed.
FairCapture == SpecCapture /\ WF_vars(restartTimer)

\* ------------------------------------------------------------ frames
\* The bytes received so far, in order.
Received == Iota(0, streamPos)

\* C1: in the data handlers of startMicrophoneCapture and startRecording, after
\* chunks of any sizes, the emitted frames concatenated in emission order,
\* followed by the bytes still in `pending`, are the bytes of all chunks
\* received so far: none dropped, duplicated or reordered.
C1_FramesThenPendingIsInput ==
    program \in {"allinone", "lpcm16"} => Flatten(emitted) \o pending = Received

\* Two frames cut out of chunks that do not end on frame borders, and a remainder.
C1_Witness ==
    /\ program = "allinone"
    /\ Len(emitted) >= 2
    /\ pending # <<>>
    /\ lastChunk.total % needed # 0

\* C2 as stated: in startMic no byte is part of two frames, and every byte
\* received is in a frame or still in the buffer, whatever arrives while a
\* handler awaits frequencyToMessage.  (Before any restart, so that the bytes
\* an exiting process leaves behind are not counted.)
C2_NoByteTwiceNoByteLost ==
    (program = "arecord" /\ gen <= 1) =>
        /\ \A i, j \in 1..Len(emitted) :
              i # j => Range(emitted[i]) \cap Range(emitted[j]) = {}
        /\ \A b \in 1..streamPos : b \in Range(Flatten(emitted)) \cup Range(buffer)

\* C3: every frame handed to the FFT by a capture handler has exactly
\* FRAME_SIZE samples, each read from two bytes, so that runFFTOnSamples
\* neither pads nor trims it, whatever the sizes of the chunks.
C3_FramesHaveFrameSize ==
    \A i \in 1..Len(analysed) :
        /\ Len(analysed[i]) = FRAME_SIZE
        /\ padOrTrim(analysed[i]) = analysed[i]
        /\ Len(emitted[i]) = needed

\* startMic has analysed the head of a buffer that holds more than a frame.
C3_Witness ==
    /\ program \in MicPrograms
    /\ Len(analysed) >= 1
    /\ lastChunk.frames = 1
    /\ lastChunk.total > needed

\* C4 as stated: once a data handler has finished, the buffer holds fewer than
\* FRAME_SIZE*2 bytes, and a chunk that brings the buffer to k*FRAME_SIZE*2 + r
\* bytes (r < FRAME_SIZE*2) makes exactly k frames.
C4_AllWholeFramesTaken ==
    /\ Len(pending) < needed
    /\ (handlers = {} /\ ~unhandled) => Len(buffer) < needed
    /\ lastChunk.frames = lastChunk.total \div needed

\* C5 as stated: startMic dispatches the message of frame N before that of
\* frame N+1.
C5_DispatchInFrameOrder ==
    program = "arecord" =>
        \A i, j \in 1..Len(dispatched) : i < j => dispatched[i] < dispatched[j]

\* ------------------------------------------------------------ stream end
Terminated == {"errored", "closed", "failed"}

\* C6 as stated: once the stream has closed cleanly, a partial frame that was
\* pending has been flushed as one zero-padded frame, so that every byte
\* received is covered by an analysed frame and nothing is pending.
C6_CleanCloseFlushes ==
    (program \in {"allinone", "lpcm16"} /\ source = "closed") =>
        /\ pending = <<>>
        /\ Len(analysed) * needed >= streamPos

\* C6, amended: the step in which a capture source ends, cleanly or by error,
\* takes no frame, analyses nothing and dispatches nothing, and leaves the
\* partial frame where it was: no variant flushes the remainder.
C6_EndOfStreamFlushesNothing ==
    [][ (source' # source /\ source' \in Terminated) =>
            UNCHANGED << pending, buffer, emitted, analysed, dispatched, logFile,
                         ioEvents, lastMessage >> ]_vars

\* A stream closed cleanly over a partial frame, which is still pending.
C6_Witness ==
    /\ program = "lpcm16"
    /\ source = "closed"
    /\ pending # <<>>
    /\ Len(emitted) >= 1

\* ------------------------------------------------------------ sinks
\* The dispatch numbers of the records in the log file.
LogRecords == { logFile[i].ts : i \in { k \in 1..Len(logFile) : k % 2 = 1 } }
LogFailures == { console[i].ts : i \in { k \in 1..Len(console) : console[k].what = "Log write failed" } }
Dispatches == 1..Len(dispatched)

\* Every sink but the log was given the message of the last dispatch: each
\* response subscribed at the time was written to, TTS was spoken if enabled,
\* the webhook was called if configured.
LastReachedOtherSinks ==
    Len(dispatched) > 0 =>
        /\ lastBroadcast.ts = Len(dispatched)
        /\ lastBroadcast.tried = lastBroadcast.subs
        /\ ENABLE_TTS =>
              \E k \in ttsCalls : k.ts = Len(dispatched) /\ k.cmd = "termux-tts-speak"
        /\ WEBHOOK_ON_MESSAGE =>
              /\ Len(webhookCalls) = Len(dispatched)
              /\ webhookCalls[Len(webhookCalls)].ts = Len(dispatched)

IsPrefix(a, b) == Len(a) <= Len(b) /\ SubSeq(b, 1, Len(a)) = a

\* The log is records, each followed by a newline, of distinct dispatches in
\* dispatch order.
LogWellFormed ==
    /\ Len(logFile) % 2 = 0
    /\ \A i \in 1..Len(logFile) :
          IF i % 2 = 0 THEN logFile[i] = "\n"
          ELSE /\ logFile[i].ts \in Dispatches
               /\ i > 2 => logFile[i - 2].ts < logFile[i].ts

C9_FailedSubscriberPruned ==
    /\ \A c \in lastBroadcast.threw : c \notin Range(clients)
    /\ \A c \in Range(lastBroadcast.subs) \ lastBroadcast.threw :
          written[c].last = lastBroadcast.ts

\* C9, amended: a failed write removes nobody: a response is in `clients` from
\* its GET /events until its request's close event, so a later broadcast
\* writes to it again; a broadcast writes to every response subscribed when it
\* began, and those whose write does not throw receive its event.
C9_WriteFailureIgnored ==
    /\ \A c \in ClientIds : c \in Range(clients) <=> conn[c] \in {"open", "broken"}
    /\ lastBroadcast.tried = lastBroadcast.subs
    /\ \A c \in Range(lastBroadcast.subs) \ lastBroadcast.threw :
          written[c].last = lastBroadcast.ts

\* The second broadcast wrote again to a subscriber whose write had failed in
\* the first, and the subscriber after it received both.
C9_Witness ==
    /\ lastBroadcast.ts = 2
    /\ Len(lastBroadcast.subs) = 2
    /\ lastBroadcast.threw = {lastBroadcast.subs[1]}
    /\ written[lastBroadcast.subs[1]].last = 0
    /\ written[lastBroadcast.subs[2]].last = 2
    /\ lastBroadcast.threw \subseteq Range(clients)

TokenFailed == { id \in 1..Len(alexaSends) : AlexaEvents(id) \cap {"threw", "notoken"} # {} }

\* C11: sendMessageToAlexa fetches a token before every notification request
\* and issues the request only when the fetch returned a token: when the token
\* fetch throws or returns no access token, no notification request is sent.
C11_RequestOnlyWithToken ==
    \A id \in 1..Len(alexaSends) :
        "requested" \in AlexaEvents(id) => "token" \in AlexaEvents(id)

\* C12: a token-fetch failure (a rejected fetch or a missing token) is
\* contained: the same message is still appended to the log, no rejection
\* escapes unhandled, and the capture handler goes on with later frames.
C12_TokenFailureContained ==
    program \in {"arecord", "arecord_ui"} =>
        \A id \in TokenFailed :
            /\ \E i \in 1..Len(logFile) :
                  /\ i % 2 = 1
                  /\ logFile[i].frame = alexaSends[id].frame
                  /\ logFile[i].message = alexaSends[id].message
            /\ "rejected" \notin AlexaEvents(id)
            /\ ~unhandled
            /\ ~crashed

\* ------------------------------------------------------------ smoothing
Min(a, b) == IF a < b THEN a ELSE b
Abs(x) == IF x < 0 THEN 0 - x ELSE x

\* The n most recently pushed spectra, oldest first.
Recent(n) == SubSeq(pushed, Len(pushed) - n + 1, Len(pushed))

\* C13: the smoothing window holds at most K = FFT_SMOOTHING spectra; after n
\* pushes it holds exactly the min(n, K) most recently pushed spectra, in
\* arrival order (the oldest is evicted first).
C13_WindowIsMostRecent ==
    /\ Len(smoothedData) <= FFT_SMOOTHING
    /\ smoothedData = Recent(Min(Len(pushed), FFT_SMOOTHING))

\* Two evictions, of spectra that differ from the ones kept.
C13_Witness ==
    /\ Len(pushed) = FFT_SMOOTHING + 2
    /\ pushed[1] # pushed[3]
    /\ pushed[2] # pushed[Len(pushed)]
    /\ smoothedData[1] = pushed[3]

\* The sum of bin i over the spectra of ss, added left to right from 0.
RECURSIVE BinSum(_, _)
BinSum(ss, i) ==
    IF ss = <<>> THEN 0 ELSE fadd(BinSum(SubSeq(ss, 1, Len(ss) - 1), i), ss[Len(ss)][i])

\* C14: smoothFrequencies returns, for each bin i, the mean of bin i over the
\* spectra in the window, the one just pushed included; while fewer than K
\* spectra have been pushed the divisor is the number available, not K.
C14_MeanOverWindow ==
    pushed # <<>> =>
        LET n == Min(Len(pushed), FFT_SMOOTHING)
        IN  \A i \in 1..FRAME_SIZE : smoothed[i] = fdiv(BinSum(Recent(n), i), n)

\* Warm-up: two spectra pushed, of 4 and 6 in every bin; the mean is 5.
C14_Witness ==
    /\ pushed = << Flat(4 * Unit), Flat(6 * Unit) >>
    /\ Len(pushed) < FFT_SMOOTHING
    /\ smoothed = Flat(5 * Unit)

\* The last n pushes were all the spectrum of magnitude c in every bin.
Steady(c, n) == Len(pushed) >= n /\ \A k \in 1..n : Recent(n)[k] = Flat(c)

Levels == {4 * Unit, 6 * Unit}

\* C15 as stated: the output has the input's length, and when the same
\* constant-magnitude spectrum has been pushed K times or more in a row, after
\* any prior content, the output equals that constant in every bin.
C15_ConstantReproduced ==
    pushed # <<>> =>
        /\ Len(smoothed) = Len(pushed[Len(pushed)])
        /\ \A c \in Levels : Steady(c, FFT_SMOOTHING) => smoothed = Flat(c)

\* The partial sums c, 2c, ..., Kc are numbers: adding rounds nothing.
ExactSums(c) == \A k \in 1..FFT_SMOOTHING : RoundDiv(k * c, 1) = k * c

C15_Settled ==
    pushed # <<>> =>
        /\ Len(smoothed) = Len(pushed[Len(pushed)])
        /\ \A c \in Levels : Steady(c, FFT_SMOOTHING) =>
              /\ \A i, j \in 1..FRAME_SIZE : smoothed[i] = smoothed[j]
              /\ \A i \in 1..FRAME_SIZE :
                    Abs(smoothed[i] - c) * Pow2(MantissaBits) <= FFT_SMOOTHING * c
              /\ ExactSums(c) => smoothed = Flat(c)

C15_Stays ==
    \A c \in Levels :
        Steady(c, FFT_SMOOTHING) /\ Steady(c, FFT_SMOOTHING)' => smoothed' = smoothed

\* C15, amended: the output has the input's length; when the same
\* constant-magnitude spectrum has been pushed K times or more in a row, after
\* any prior content, the output has one value in every bin, which further
\* such pushes do not change; the value is the constant when its multiples up
\* to K are added without rounding, and within K rounding errors of it otherwise.
C15_ConstantSettles == []C15_Settled /\ [][C15_Stays]_vars

\* A spectrum of another shape, then K + 1 times the spectrum of 4 in every bin.
C15_Witness ==
    /\ Len(pushed) = FFT_SMOOTHING + 2
    /\ pushed[1] = Tone(1, 7 * Unit)
    /\ Steady(4 * Unit, FFT_SMOOTHING + 1)
    /\ smoothed = Flat(4 * Unit)

Labelled == program \in {"allinone", "lpcm16"} /\ classified.frame # 0
\* The description of the spectrum the last classification was given, and the spectrum.
InputDescr == Descr(classified.spectrum.track, classified.spectrum.frame % 2)
InputSpectrum == SpectrumOf(InputDescr)

\* C17: for an all-zero spectrum the classifier yields yesNo MAYBE and the
\* neutral color Gray and no signature phrase, and generateMessage still
\* returns a non-empty message.
C17_SilenceIsNeutral ==
    (Labelled /\ \A i \in 1..FFT_BINS : InputSpectrum[i] = 0) =>
        /\ classified.yesNo = "MAYBE"
        /\ classified.color = "Gray"
        /\ lastMessage = generateMessage(classified.freq, classified.yesNo,
                                        classified.color, classified.mag)
        /\ lastMessage # <<>>

\* The bin the last classification named: its frequency over the bin width.
PeakBin == classified.freq \div (SAMPLE_RATE \div FFT_BINS)
\* The magnitude of bin i of the spectrum classified.
Bin(i) == InputSpectrum[i + 1]

\* C18 as stated: getDominantFrequency returns the bin of maximal magnitude
\* among bins 1..floor(N/2) inclusive (bin 0 excluded), with the frequency
\* bin * sampleRate / N and that bin's magnitude.
C18_MaxUpToNyquistInclusive ==
    Labelled =>
        /\ PeakBin \in 1..(FFT_BINS \div 2)
        /\ \A j \in 1..(FFT_BINS \div 2) : Bin(j) <= Bin(PeakBin)
        /\ classified.freq * FFT_BINS = PeakBin * SAMPLE_RATE
        /\ classified.mag = Bin(PeakBin)

\* C18, amended: getDominantFrequency returns the first bin of maximal
\* magnitude among bins 1..floor(N/2)-1 (bin 0 and the Nyquist bin excluded),
\* with the frequency bin * sampleRate / N and that bin's magnitude.
C18_FirstMaxBelowNyquist ==
    Labelled =>
        /\ PeakBin \in 1..((FFT_BINS \div 2) - 1)
        /\ \A j \in 1..((FFT_BINS \div 2) - 1) : Bin(j) <= Bin(PeakBin)
        /\ \A j \in 1..(PeakBin - 1) : Bin(j) < Bin(PeakBin)
        /\ classified.freq * FFT_BINS = PeakBin * SAMPLE_RATE
        /\ classified.mag = Bin(PeakBin)

\* The strongest tone is in the Nyquist bin; the weaker tone at 500 Hz is returned.
C18_Witness ==
    /\ Labelled
    /\ Bin(FFT_BINS \div 2) = 2000
    /\ Bin(5) = 500
    /\ classified.freq = 500
    /\ classified.mag = 500

\* C19: the tri-state is YES exactly when the dominant frequency is above 1000
\* and the magnitude passes the floor MIN_GOOD_MAG, NO exactly when the
\* frequency is below 200 and the magnitude passes the floor, MAYBE otherwise.
C19_TriState ==
    Labelled =>
        LET passes == classified.mag > MIN_GOOD_MAG
        IN  /\ classified.yesNo = "YES" <=> (classified.freq > 1000 /\ passes)
            /\ classified.yesNo = "NO" <=> (classified.freq < 200 /\ passes)
            /\ classified.yesNo = "MAYBE" <=>
                  ~(passes /\ (classified.freq > 1000 \/ classified.freq < 200))

\* A tone at 100 Hz just above the floor: NO.
C19_Witness ==
    /\ Labelled
    /\ classified.freq = 100
    /\ classified.mag = MIN_GOOD_MAG + 1
    /\ classified.yesNo = "NO"

\* C20: a spectrum whose single dominant bin is the bin of exactly 1500 Hz,
\* with a magnitude above the floor, is classified YES and Violet.
C20_Tone1500IsYesViolet ==
    (/\ Labelled
     /\ InputDescr.bin * SAMPLE_RATE = 1500 * FFT_BINS
     /\ InputDescr.mag > MIN_GOOD_MAG
     /\ InputDescr.mag2 < InputDescr.mag) =>
        /\ classified.yesNo = "YES"
        /\ classified.color = "Violet"

\* The 1500 Hz tone just above the floor, over a weaker tone at 500 Hz.
C20_Witness ==
    /\ Labelled
    /\ Bin(15) = MIN_GOOD_MAG + 1
    /\ Bin(5) = 500
    /\ classified.freq = 1500
    /\ classified.yesNo = "YES"
    /\ classified.color = "Violet"


\* ------------------------------------------------------------ C21
\* The spectrum of the k-th frame the file and stream pipelines analyse.
FrameSpectrum(k) == SpectrumOf(Descr(audio, k % 2))
\* The records of the log file, in order.
LogLines == [i \in 1..(Len(logFile) \div 2) |-> logFile[2 * i - 1]]
\* What the completion request can put in place of the joined symbols.
CompletionTexts == MicMessages \ {""}

\* Two frames of one run of part_002 or startRecording with the same spectrum
\* are given the same frequency, yes/no/maybe, color and message text (the
\* text holds the magnitude).
SameLabels ==
    program \in {"allinone", "lpcm16"} =>
        \A i, j \in 1..Len(LogLines) :
            FrameSpectrum(LogLines[i].ts) = FrameSpectrum(LogLines[j].ts) =>
                /\ LogLines[i].freq = LogLines[j].freq
                /\ LogLines[i].yesNo = LogLines[j].yesNo
                /\ LogLines[i].color = LogLines[j].color
                /\ LogLines[i].message = LogLines[j].message

C21_SymbolsTwice ==
    /\ Len(ioEvents) = 2
    /\ ioEvents[1].frame # ioEvents[2].frame
    /\ ioEvents[1].magnitudes = ioEvents[2].magnitudes
    /\ ioEvents[1].symbols # <<>>
    /\ ioEvents[1].message = join(ioEvents[1].symbols)
    /\ ioEvents[2].message = join(ioEvents[2].symbols)

\* ------------------------------------------------------------ C22
\* C22: every message produced and handed to a consumer (UI/SSE event, log,
\* voice assistant, webhook, status snapshot) has a non-empty text, and the
\* lastMessage snapshot is non-empty in every reachable state, including
\* before the first frame.
C22_NoEmptyMessage ==
    /\ lastMessage # <<>>
    /\ \A i \in 1..Len(LogLines) :
          LogLines[i].message # (IF program \in MicPrograms THEN "" ELSE <<>>)
    /\ \A i \in 1..Len(webhookCalls) : webhookCalls[i].message # <<>>
    /\ \A i \in 1..Len(alexaSends) : alexaSends[i].message # ""
    /\ \A i \in 1..Len(ioEvents) : ioEvents[i].message # ""

\* ------------------------------------------------------------ C23
\* Some required credential is not defined.
CredentialMissing == env # Credentials

\* C23: if any required credential (ALEXA_SKILL_ID, ALEXA_CLIENT_ID,
\* ALEXA_CLIENT_SECRET, ALEXA_REFRESH_TOKEN, OPENAI_API_KEY) is missing at
\* startup, the process exits immediately: the server never listens, capture
\* never starts and no sink is ever invoked.
C23_MissingCredentialExits ==
    CredentialMissing =>
        /\ ~listening
        /\ gen = 0 /\ source = "none" /\ emitted = <<>>
        /\ ioEvents = <<>> /\ alexaSends = <<>> /\ alexaTrace = {} /\ logFile = <<>>
        /\ console # <<>> => exited = 1

\* ------------------------------------------------------------ C24
\* The step is a timer callback of the file watcher.
FileStep == Cardinality(timer') < Cardinality(timer)
\* The file the callback read lacks the header, or a frame's samples after it.
HeaderShort == lastChunk.total \in 1..(WAV_HEADER - 1)
SamplesShort == lastChunk.total \in WAV_HEADER..(WAV_HEADER + needed - 1)
WholeFile == lastChunk.total >= WAV_HEADER + needed
\* Nothing of the message state, the log, the console or the subscribers changes.
Untouched ==
    UNCHANGED << analysed, emitted, classified, lastMessage, lastFreq, lastMag, logFile,
                 console, dispatched, written, lastBroadcast, webhookCalls, issued, clients >>
\* The step classifies one frame and dispatches its message.
Processed ==
    /\ Len(analysed') = Len(analysed) + 1
    /\ classified'.frame = Len(analysed')
    /\ Len(dispatched') = Len(dispatched) + 1
    /\ lastMessage' = generateMessage(classified'.freq, classified'.yesNo,
                                      classified'.color, classified'.mag)

AttemptsFor(ts) == { i \in 1..Len(webhookCalls) : webhookCalls[i].ts = ts }

\* C25: for each message notifyWebhook makes at most one delivery attempt, none
\* when no webhook is configured, and never retries or backs off, whatever
\* the outcome of that attempt.
C25_OneAttemptNoRetry ==
    /\ [](\A ts \in 1..Len(dispatched) :
            Cardinality(AttemptsFor(ts)) <= (IF WEBHOOK_ON_MESSAGE THEN 1 ELSE 0))
    /\ [](\A i \in 1..Len(webhookCalls) : webhookCalls[i].ts \in 1..Len(dispatched))
    /\ [][Len(webhookCalls') > Len(webhookCalls) => Len(dispatched') > Len(dispatched)]_vars

\* The attempt for the first message has failed, and the second message has
\* been dispatched with its own single attempt.
C25_Witness ==
    /\ Len(webhookCalls) = 2
    /\ webhookCalls[1].exec = "failed"
    /\ webhookCalls[1].ts = 1
    /\ webhookCalls[2].ts = 2

\* ------------------------------------------------------------ C26
\* The id-th voice-assistant call has run to its end: it returned without a
\* request, or its request has been answered or has failed.
AlexaDone(id) == AlexaEvents(id) \cap {"notoken", "caught", "rejected", "sent", "posterr"} # {}
                 /\ ("requested" \in AlexaEvents(id) =>
                        AlexaEvents(id) \cap {"sent", "posterr"} # {})

\* C26: outbound deliveries are not awaited by the frame loop: the handler
\* that issues the voice-assistant or webhook call for a frame ends with the
\* call outstanding, and no later frame waits for it, so that the delivery
\* for frame N can complete after the delivery for frame N+1.
C26_DeliveriesNotAwaited ==
    /\ [][\A i \in 1..Len(webhookCalls') :
             i > Len(webhookCalls) => webhookCalls'[i].exec = "running"]_vars
    /\ [][\A id \in 1..Len(alexaSends') :
             id > Len(alexaSends) => AlexaEvents(id)' = {}]_vars
    /\ [][(Len(dispatched') > Len(dispatched)) =>
             /\ \A i \in 1..Len(webhookCalls) : webhookCalls'[i] = webhookCalls[i]
             /\ alexaTrace' = alexaTrace]_vars

\* startMic: the call for frame 2 has been answered while the request of the
\* call for frame 1 is still outstanding.
C26_Witness ==
    /\ Len(alexaSends) = 2
    /\ alexaSends[1].frame = 1 /\ alexaSends[2].frame = 2
    /\ "requested" \in AlexaEvents(1) /\ ~AlexaDone(1)
    /\ "sent" \in AlexaEvents(2)

\* part_002: the curl for message 2 has exited while the curl for message 1
\* is still running.
C26_WebhookOutOfOrder ==
    /\ Len(webhookCalls) = 2
    /\ webhookCalls[1].exec = "running" /\ webhookCalls[1].ts = 1
    /\ webhookCalls[2].exec = "exited" /\ webhookCalls[2].ts = 2

\* ------------------------------------------------------------ C27
\* The text of the log record of dispatch ts, of the webhook call for it.
LoggedText(ts) == { LogLines[i].message : i \in { k \in 1..Len(LogLines) : LogLines[k].ts = ts } }
PostedText(ts) == { webhookCalls[i].message : i \in AttemptsFor(ts) }

\* C27: no partial messages: each processed frame yields exactly one complete
\* message or none, and when one is produced the text in lastMessage, in the
\* log record and in the SSE and webhook payloads for that frame are the same
\* string.
C27_OneTextEverywhere ==
    /\ Len(dispatched) = Len(analysed)
    /\ \A ts \in 1..Len(dispatched) :
          Cardinality(LoggedText(ts) \cup PostedText(ts)) <= 1
    /\ Len(dispatched) > 0 =>
          LET ts == Len(dispatched)
          IN  /\ lastMessage = generateMessage(classified.freq, classified.yesNo,
                                               classified.color, classified.mag)
              /\ classified.frame = ts
              /\ lastBroadcast.ts = ts
              /\ lastBroadcast.message = lastMessage
              /\ LoggedText(ts) \subseteq {lastMessage}
              /\ PostedText(ts) \subseteq {lastMessage}

\* Two frames dispatched, the second one's text logged, posted to the webhook
\* and written to a subscriber.
C27_Witness ==
    /\ Len(dispatched) = 2
    /\ LoggedText(2) # {}
    /\ PostedText(2) # {}
    /\ \E c \in ClientIds : written[c].last = 2
    /\ LoggedText(1) # LoggedText(2)

\* ------------------------------------------------------------ C28
\* C28: on SIGINT the capture source is stopped before the process exits, and
\* the exit does not wait for outstanding asynchronous deliveries.
C28_SourceStoppedAtExit ==
    exited # -1 => source \notin {"open", "errored"}

\* ------------------------------------------------------------ C29
\* C29: each live-events subscriber is sent the `retry:` directive exactly
\* once, at stream open, and it is written before any `data:` event is
\* written to that subscriber.
C29_RetryOnceAndFirst ==
    /\ [](\A c \in ClientIds :
            IF conn[c] = "new"
            THEN written[c].retry = 0 /\ written[c].first = NONE /\ written[c].last = 0
            ELSE written[c].retry = 1 /\ written[c].first = "retry")
    /\ [][\A c \in ClientIds :
            written'[c].retry # written[c].retry => conn[c] = "new" /\ conn'[c] = "open"]_vars

\* A subscriber that has been sent the directive and, later, the data event
\* of the second message.
C29_Witness ==
    \E c \in ClientIds :
        /\ written[c].retry = 1
        /\ written[c].first = "retry"
        /\ written[c].last = 2
\* C30: mapColor gives every dominant frequency one label, from ranges that
\* follow one another without overlap: Red below 300 Hz, Green from 300 up to
\* but not including 700, Blue from 700 up to but not including 1500, Violet
\* from 1500 up; a frequency that is undefined or NaN gets Gray, and so does
\* the 0 that stands for no dominant frequency.
C30_ColorRanges ==
    classified.color # NONE =>
        /\ classified.color \in {"Gray", "Red", "Green", "Blue", "Violet"}
        /\ (classified.freq \in {0, NaN, UNDEFINED}) <=> classified.color = "Gray"
        /\ (classified.freq > 0 /\ classified.freq < 300) <=> classified.color = "Red"
        /\ (classified.freq >= 300 /\ classified.freq < 700) <=> classified.color = "Green"
        /\ (classified.freq >= 700 /\ classified.freq < 1500) <=> classified.color = "Blue"
        /\ classified.freq >= 1500 <=> classified.color = "Violet"

\* A frequency on the limit between two ranges has the label of the upper one.
C30_Witness ==
    /\ classified.frame = 0
    /\ classified.freq = 300
    /\ classified.color = "Green"

\* C31: mapFrequenciesToSymbols returns, without duplicates, exactly the
\* symbols of the bands [min, max] that hold the frequency of at least one bin
\* whose magnitude divided by the largest magnitude is at least MIN_CONFIDENCE;
\* a band with no such bin contributes no symbol.
Confident(freqData, k) ==
    LET max == arrMax(freqData, Len(freqData))
    IN  max > 0 /\ 100 * freqData[k] >= MIN_CONFIDENCE * max

BandsHit(freqData) ==
    { bands[b].symbol : b \in { c \in 1..Len(bands) :
          \E k \in 1..Len(freqData) :
              /\ Confident(freqData, k)
              /\ bandFreq(k - 1) >= bands[c].min
              /\ bandFreq(k - 1) <= bands[c].max } }

C31_SymbolsOfConfidentBands ==
    \A i \in 1..Len(ioEvents) :
        LET e == ioEvents[i]
        IN  e.frame = 0 =>
                /\ Range(e.symbols) = BandsHit(e.magnitudes)
                /\ Cardinality(Range(e.symbols)) = Len(e.symbols)

\* C32: in the signature path a chunk whose low-window and high-window counts
\* are both zero gives no phrase and nothing is sent to the voice assistant; a
\* chunk with a non-zero count gives exactly one decoded message, which is sent
\* once.
SignatureStep == program = "signature" /\ classified'.frame = classified.frame + 1

C32_SignatureSentOnceOrNever ==
    /\ [][SignatureStep =>
             IF classified'.redCount = 0 /\ classified'.blueCount = 0
             THEN alexaSends' = alexaSends /\ console' = console
             ELSE /\ alexaSends' = Append(alexaSends,
                        [frame |-> classified'.frame,
                         message |-> << classified'.redCount, "R",
                                        classified'.blueCount, "B" >>])
                  /\ Cardinality({i \in 1..Len(alexaSends') :
                         alexaSends'[i].frame = classified'.frame}) = 1]_vars
    /\ [][~SignatureStep => alexaSends' = alexaSends]_vars

\* Of two chunks, the first had both counts at zero and nothing was sent for
\* it, the second had bins in both windows and its message was sent.
C32_Witness ==
    /\ program = "signature"
    /\ classified.frame = 2
    /\ classified.redCount = 1
    /\ classified.blueCount = 2
    /\ analyzeFrequencies(analysed[1]) = [redCount |-> 0, blueCount |-> 0]
    /\ Len(alexaSends) = 1
    /\ alexaSends[1] = [frame |-> 2, message |-> <<1, "R", 2, "B">>]

\* C33: runFFTOnSamples gives a spectrum of exactly FRAME_SIZE bins for an
\* input of any length: a shorter input is extended with zeros after its
\* samples, which stay an unchanged prefix, and a longer input is cut to its
\* first FRAME_SIZE samples.
C33_SpectrumOfFrameSize ==
    analysed # <<>> =>
        LET given == classified.input
            used == analysed[1]
            kept == IF Len(given) < FRAME_SIZE THEN Len(given) ELSE FRAME_SIZE
        IN  /\ Len(classified.spectrum) = FRAME_SIZE
            /\ Len(used) = FRAME_SIZE
            /\ \A i \in 1..kept : used[i] = given[i]
            /\ \A i \in (kept + 1)..FRAME_SIZE : used[i] = ZERO
            /\ classified.spectrum = fftMags(used)

\* An input one sample short, none of its samples zero, got one zero appended.
C33_Witness ==
    /\ analysed # <<>>
    /\ Len(classified.input) = FRAME_SIZE - 1
    /\ \A i \in 1..Len(classified.input) : classified.input[i] # ZERO
    /\ analysed[1] = Append(classified.input, ZERO)
    /\ Len(classified.spectrum) = FRAME_SIZE

\* An input two samples too long lost its last two samples.
C33_Trimmed ==
    /\ analysed # <<>>
    /\ Len(classified.input) = FRAME_SIZE + 2
    /\ analysed[1] = SubSeq(classified.input, 1, FRAME_SIZE)

\* C39: when several bins in 1..N/2 share the maximal magnitude,
\* getDominantFrequency reports the lowest-indexed of them, so the dominant
\* frequency is the lowest frequency that attains the peak.
PeakBins ==
    {j \in 1..(FFT_BINS \div 2) : \A i \in 1..(FFT_BINS \div 2) : Bin(i) <= Bin(j)}

C39_LowestOfEqualPeaks ==
    (Labelled /\ Cardinality(PeakBins) >= 2) =>
        /\ PeakBin \in PeakBins
        /\ \A j \in PeakBins : PeakBin <= j
        /\ classified.mag = Bin(PeakBin)

\* Tones of one magnitude at 2000 Hz and at 3100 Hz: 2000 Hz is reported.
C39_Witness ==
    /\ Labelled
    /\ PeakBins = {20, 31}
    /\ classified.freq = 2000
    /\ classified.mag = Bin(31)

\* C34: at most one capture source is live at any moment.  startMic is invoked
\* again only from the close handler of the process before, once for each
\* process: a process is spawned only when none is live, a restart is pending
\* only after a close and there is never more than one.  startMicrophoneCapture
\* and startRecording open a stream only when capture is not marked active, and
\* mark it active.
C34_OneSourceLive ==
    /\ [](timer # {} => (source = "closed" /\ Cardinality(timer) = 1 /\ exitCode # -1))
    /\ [](program \in {"allinone", "lpcm16"} /\ source = "open" => recording)
    /\ [][gen' # gen =>
             /\ gen' = gen + 1
             /\ source # "open" /\ source' = "open"
             /\ timer' = {}
             /\ gen = 0 \/ (source = "closed" /\ timer # {})]_vars
    /\ [][(program \in {"allinone", "lpcm16"} /\ source' = "open" /\ source # "open") =>
             (source = "none" /\ ~recording /\ recording')]_vars

\* A second arecord process is live, after the first one closed.
C34_Witness ==
    /\ program = "arecord"
    /\ gen = 2
    /\ source = "open"
    /\ exitCode # -1
    /\ timer = {}

\* C35: the status snapshot is consistent in every state: lastMessage, lastFreq
\* and lastMag (the script of Me2You.js:663-868 keeps no lastMag) are all at
\* their initial values or all come from one and the same frame, so a /status
\* or /me2you query never sees the message of one frame with the frequency or
\* magnitude of another.
SnapshotOf(k) ==
    LET pk == PeakOf(k)
        yesNo == IF pk.mag # 0 /\ pk.mag > MIN_GOOD_MAG THEN interpretYesNo(pk.freq)
                 ELSE "MAYBE"
    IN  [message |-> generateMessage(pk.freq, yesNo, mapColor(pk.freq), pk.mag),
         freq |-> pk.freq, mag |-> pk.mag]

C35_SnapshotOfOneFrame ==
    program \in {"allinone", "lpcm16"} =>
        \/ /\ lastMessage = <<"No signal detected yet.">>
           /\ lastFreq = 0
           /\ lastMag = 0
        \/ \E k \in 1..Len(analysed) :
              /\ lastMessage = SnapshotOf(k).message
              /\ lastFreq = SnapshotOf(k).freq
              /\ program = "allinone" => lastMag = SnapshotOf(k).mag

\* The second frame, whose peak is not the first frame's, is in the snapshot.
C35_Witness ==
    /\ program = "allinone"
    /\ Len(analysed) = 2
    /\ SnapshotOf(1).freq # SnapshotOf(2).freq
    /\ SnapshotOf(1).mag # SnapshotOf(2).mag
    /\ lastMessage = SnapshotOf(2).message
    /\ lastFreq = SnapshotOf(2).freq
    /\ lastMag = SnapshotOf(2).mag

\* C36: the snapshot is updated before the fan-out: whenever handleNewMessage
\* issues a log record, an SSE event or a webhook call for a message,
\* lastMessage already holds that message's text, so a consumer that reacts to
\* the event and then queries /me2you never reads an older message than the
\* one it was notified of.
C36_SnapshotBeforeFanOut ==
    /\ \A i \in 1..Len(issued) :
          /\ issued[i].lastMessage = issued[i].message
          /\ issued[i].ts <= Len(dispatched)
          /\ issued[i].ts = Len(dispatched) => lastMessage = issued[i].message
    /\ \A i \in 1..Len(logFile) :
          i % 2 = 1 =>
              \E j \in 1..Len(issued) : /\ issued[j].sink = "log"
                                        /\ issued[j].ts = logFile[i].ts
    /\ \A i \in 1..Len(webhookCalls) :
          \E j \in 1..Len(issued) : /\ issued[j].sink = "webhook"
                                    /\ issued[j].ts = webhookCalls[i].ts
    /\ lastBroadcast.ts # 0 =>
          \E j \in 1..Len(issued) : /\ issued[j].sink = "sse"
                                    /\ issued[j].ts = lastBroadcast.ts

\* The second message went to the three sinks, after a first one with
\* another text.
C36_Witness ==
    /\ Len(dispatched) = 2
    /\ {issued[i].sink : i \in {j \in 1..Len(issued) : issued[j].ts = 2}}
          = {"log", "sse", "webhook"}
    /\ \E i \in 1..Len(issued) : issued[i].ts = 1 /\ issued[i].message # lastMessage

\* C37: the SSE client set holds a response exactly when its /events request
\* has been opened and has not closed, never holds a response twice, and after
\* a subscriber's close event no later broadcast writes to it, whatever the
\* order of opens, closes and broadcasts.
Subscribed == {c \in ClientIds : conn[c] \in {"open", "broken"}}

C37_ClientSetIsOpenRequests ==
    /\ [](Range(clients) = Subscribed)
    /\ [](Cardinality(Range(clients)) = Len(clients))
    /\ [][lastBroadcast' # lastBroadcast =>
             /\ Range(lastBroadcast'.tried) = Subscribed
             /\ Len(lastBroadcast'.tried) = Cardinality(Subscribed)]_vars
    /\ [][\A c \in ClientIds : conn[c] = "closed" =>
             (written'[c] = written[c] /\ conn'[c] = "closed")]_vars

\* A broadcast went to the one subscriber left, after the other's close event.
C37_Witness ==
    /\ conn[1] = "closed"
    /\ conn[2] = "open"
    /\ clients = <<2>>
    /\ lastBroadcast.subs = <<2>>
    /\ lastBroadcast.tried = <<2>>
    /\ written[1].last # 0
    /\ written[1].last < written[2].last

\* C38: a frame never mixes bytes of two capture processes.  Each startMic
\* invocation starts with its own empty buffer, so bytes a terminated process
\* left over are never put before the data of the restarted one; the buffer
\* of the running process changes only by its own chunks and its own handlers'
\* reset, so a handler of the old process that is still awaiting cannot modify
\* it; and each frame is cut from the running process's buffer and chunk.
ResumedOld ==
    \E h \in handlers : h \notin handlers' /\ h.gen # gen

C38_FramesOfOneProcess ==
    /\ [][gen' # gen => buffer' = <<>>]_vars
    /\ [][(program \in MicPrograms /\ Len(emitted') > Len(emitted)) =>
             /\ gen' = gen
             /\ emitted'[Len(emitted')] =
                    SubSeq(buffer \o Iota(streamPos, streamPos' - streamPos), 1, needed)]_vars
    /\ [][(program \in MicPrograms /\ buffer' # buffer) =>
             \/ buffer' = buffer \o Iota(streamPos, streamPos' - streamPos)
             \/ buffer' = <<>> /\ gen' # gen
             \/ buffer' = <<>> /\ streamPos' > streamPos /\ program = "arecord_cli"
             \/ buffer' = <<>> /\ \E h \in handlers : h \notin handlers' /\ h.gen = gen]_vars
    /\ [][ResumedOld => buffer' = buffer]_vars

\* The first process left a byte over after its frame and its handler is
\* still awaiting; the second process's frame holds its own bytes only.
C38_Witness ==
    /\ program = "arecord"
    /\ gen = 2
    /\ Len(emitted) = 2
    /\ emitted[1] = Iota(0, needed)
    /\ emitted[2] = Iota(needed + 1, needed)
    /\ buffer = Iota(needed + 1, needed)
    /\ \E h \in handlers : h.gen = 1

====
